---- MODULE Spec2Model ----
(***************************************************************************)
(* Model of the bridge quote aggregator (am-miracle/ai-bridge-router).     *)
(*                                                                         *)
(*   SpecAgg    get_all_bridge_quotes: ten adapter futures, each wrapped   *)
(*              in tokio::time::timeout, joined with tokio::join!.         *)
(*   Spec       the GET /quotes handler (get_quotes) from the rate-limit   *)
(*              increment to the response, one await point per action,     *)
(*              against a Redis-like store with TTLs.                      *)
(*   SpecLimit  the same handler actions run by several concurrent         *)
(*              handlers for requests that end at validation, so that a    *)
(*              whole rate-limit window of requests can be explored.       *)
(*   SpecPair   two equal requests handled one after the other while the   *)
(*              first one's fresh cache entry has not run out.             *)
(*   SpecAggOrder  the aggregator with the order in which the adapter      *)
(*              futures completed kept as history.                         *)
(*   SpecRetry  one call of retry_request.                                 *)
(*   SpecAdapter  one call of an adapter's get_quote.                      *)
(*   SpecScore  one call of calculate_score_with_config or of              *)
(*              process_quotes_with_security.                              *)
(*   SpecKey    one call of generate_cache_key for each of two requests.   *)
(*   SpecIp     one call of extract_client_ip.                             *)
(*   SpecHop    concurrent Hop get_quote calls: the route-table refresh    *)
(*              (lock, cache, provider), the route check and the quote.    *)
(*   SpecDeadline  one adapter followed step by step inside its timeout    *)
(*              wrapper during one call of get_all_bridge_quotes.          *)
(*   SpecBounded  one request followed from await to await with the time   *)
(*              it waits at each, against services that may never answer.  *)
(*   SpecCached  one adapter's get_quote with its quote cache: probe,      *)
(*              fetch, write with the dynamic TTL, and a later call.       *)
(*   SpecConcurrent  two equal requests handled at the same time.          *)
(*   SpecFrame  one handler serving requests up to the rate limit.         *)
(*   SpecAmount  the amount check and amount_to_smallest_unit.             *)
(*   SpecMeta   one call of get_batch_security_metadata.                   *)
(***************************************************************************)
EXTENDS Integers, Sequences, FiniteSets, TLC

\* ------------------------------------------------------------------------
\* Bounds
\* ------------------------------------------------------------------------

\* Largest cfg.timeout (in clock ticks) a caller of the aggregator passes.
MaxTimeout == 1

\* Number of concurrent handler tasks in SpecLimit.
MaxHandlers == 2

\* SpecLimit and SpecFrame accept new requests while the rate-limit counter
\* is below this.
MaxCount == 102

\* Spec accepts new requests while the rate-limit counter is below this.
MaxRequests == 2

\* In Spec the first MaxVaried adapters of the registry can return a quote;
\* the remaining ones fail.
MaxVaried == 2

\* Number of adapters (the first of the registry) that complete before the
\* deadline in SpecAggOrder.
MaxRacers == 3

\* Largest number of quotes handed to process_quotes_with_security in
\* SpecScore (quotes of the first adapters of the registry).
MaxQuotes == 2

\* Longest chain or token name given to generate_cache_key in SpecKey.
MaxKeyLen == 2

\* Number of concurrent requests that reach the Hop adapter in SpecHop.
MaxHopTasks == 2

\* SpecHop starts new requests while fewer than this many route-list
\* requests have been sent to the provider.
MaxFetches == 2

\* SpecHop lets time pass up to this many seconds.
MaxHopClock == 7200

\* Largest config.retries a caller of retry_request passes.
MaxRetries == 2

\* SpecBounded lets a request wait up to this many seconds in all.
MaxElapsed == 60

\* Longest list of bridge names given to get_batch_security_metadata in
\* SpecMeta.
MaxNames == 2

\* ------------------------------------------------------------------------
\* Shared vocabulary
\* ------------------------------------------------------------------------

\* Option<T>: None is the empty sequence, Some(x) is << x >>.
None == << >>
Some(x) == << x >>

\* Strings that the code compares or re-cases are sequences of characters.
AsciiUpper ==
    << "A", "B", "C", "D", "E", "F", "G", "H", "I", "J", "K", "L", "M",
       "N", "O", "P", "Q", "R", "S", "T", "U", "V", "W", "X", "Y", "Z" >>

AsciiLower ==
    << "a", "b", "c", "d", "e", "f", "g", "h", "i", "j", "k", "l", "m",
       "n", "o", "p", "q", "r", "s", "t", "u", "v", "w", "x", "y", "z" >>

LowerChar(c) ==
    IF \E k \in DOMAIN AsciiUpper : AsciiUpper[k] = c
    THEN AsciiLower[CHOOSE k \in DOMAIN AsciiUpper : AsciiUpper[k] = c]
    ELSE c

UpperChar(c) ==
    IF \E k \in DOMAIN AsciiLower : AsciiLower[k] = c
    THEN AsciiUpper[CHOOSE k \in DOMAIN AsciiLower : AsciiLower[k] = c]
    ELSE c

\* Beyond ASCII the strings of the model can hold the Greek sigma, written
\* "SIGMA" (capital), "sigma" (small) and "final_sigma" (small, word-final).
\* char::to_lowercase and char::to_uppercase:
char_to_lowercase(c) == IF c = "SIGMA" THEN "sigma" ELSE LowerChar(c)

char_to_uppercase(c) == IF c \in {"sigma", "final_sigma"} THEN "SIGMA" ELSE UpperChar(c)

\* Characters with the Unicode property Cased, among those of the model.
Cased(c) ==
    \/ \E k \in DOMAIN AsciiUpper : AsciiUpper[k] = c
    \/ \E k \in DOMAIN AsciiLower : AsciiLower[k] = c
    \/ c \in {"SIGMA", "sigma", "final_sigma"}

\* str::to_lowercase maps each character with char::to_lowercase, except a
\* capital sigma that follows a cased letter and is followed by none: that
\* one becomes the final sigma.  (No character of the model is
\* case-ignorable next to a sigma.)
to_lowercase(s) ==
    [k \in DOMAIN s |->
        IF /\ s[k] = "SIGMA"
           /\ k > 1 /\ Cased(s[k - 1])
           /\ ~(k < Len(s) /\ Cased(s[k + 1]))
        THEN "final_sigma"
        ELSE char_to_lowercase(s[k])]

to_uppercase(s) == [k \in DOMAIN s |-> char_to_uppercase(s[k])]

\* str::eq_ignore_ascii_case
eq_ignore_ascii_case(a, b) ==
    /\ Len(a) = Len(b)
    /\ \A k \in DOMAIN a : LowerChar(a[k]) = LowerChar(b[k])

\* The adapter registry, in the order of the tokio::join! tuple.
Registry ==
    << "Everclear", "Hop", "Axelar", "Across", "Stargate",
       "Wormhole", "LayerZero", "Orbiter", "cBridge", "Synapse" >>

AdapterIdx == 1..Len(Registry)

\* What a timeout-wrapped adapter future resolves to:
\*   "quote"   Ok(Ok(quote))      "error"  Ok(Err(e))     "elapsed"  Err(_)
Settled == {"quote", "error", "elapsed"}

\* Outcome of one command sent to the store:
\*   "ok"    executed, reply received
\*   "err"   not executed (no connection, pool or command error)
\*   "lost"  executed by the store, but the client timed out on the reply
StoreOutcome == {"ok", "err", "lost"}

\* ------------------------------------------------------------------------
\* Numbers  (f64 and u64 as the scorer uses them)
\* ------------------------------------------------------------------------

\* An f64 is a fixed-point number in units of 1/SCALE, or NaN, or an
\* infinity: [k |-> "fin" | "nan" | "inf", v |-> units, or the sign of the
\* infinity].  Signed zeros are not told apart.
SCALE == 1000

Fin(n) == [k |-> "fin", v |-> n]

NaN == [k |-> "nan", v |-> 0]

INFINITY == [k |-> "inf", v |-> 1]

NEG_INFINITY == [k |-> "inf", v |-> -1]

Sgn(n) == IF n > 0 THEN 1 ELSE IF n < 0 THEN -1 ELSE 0

Abs(n) == IF n < 0 THEN -n ELSE n

\* a < b on f64: false when either side is NaN.
f64_lt(a, b) ==
    IF a.k = "nan" \/ b.k = "nan" THEN FALSE
    ELSE IF a.k = "inf" THEN a.v = -1 /\ ~(b.k = "inf" /\ b.v = -1)
    ELSE IF b.k = "inf" THEN b.v = 1
    ELSE a.v < b.v

f64_eq(a, b) == a.k # "nan" /\ b.k # "nan" /\ a = b

f64_le(a, b) == f64_lt(a, b) \/ f64_eq(a, b)

f64_ge(a, b) == f64_le(b, a)

f64_neg(a) == [a EXCEPT !.v = -@]

f64_add(a, b) ==
    IF a.k = "nan" \/ b.k = "nan" THEN NaN
    ELSE IF a.k = "inf" /\ b.k = "inf" THEN (IF a.v = b.v THEN a ELSE NaN)
    ELSE IF a.k = "inf" THEN a
    ELSE IF b.k = "inf" THEN b
    ELSE Fin(a.v + b.v)

f64_sub(a, b) == f64_add(a, f64_neg(b))

f64_mul(a, b) ==
    IF a.k = "nan" \/ b.k = "nan" THEN NaN
    ELSE IF a.k = "inf" \/ b.k = "inf"
         THEN (IF a.v = 0 \/ b.v = 0 THEN NaN
               ELSE [k |-> "inf", v |-> Sgn(a.v) * Sgn(b.v)])
    ELSE Fin(Sgn(a.v) * Sgn(b.v) * ((Abs(a.v) * Abs(b.v)) \div SCALE))

f64_div(a, b) ==
    IF a.k = "nan" \/ b.k = "nan" THEN NaN
    ELSE IF a.k = "inf"
         THEN (IF b.k = "inf" THEN NaN
               ELSE [k |-> "inf", v |-> a.v * (IF b.v < 0 THEN -1 ELSE 1)])
    ELSE IF b.k = "inf" THEN Fin(0)
    ELSE IF b.v = 0
         THEN (IF a.v = 0 THEN NaN ELSE [k |-> "inf", v |-> Sgn(a.v)])
    ELSE IF a.v % SCALE = 0 /\ b.v % SCALE = 0
         THEN Fin(Sgn(a.v) * Sgn(b.v) * (((Abs(a.v) \div SCALE) * SCALE)
                                          \div (Abs(b.v) \div SCALE)))
    ELSE Fin(Sgn(a.v) * Sgn(b.v) * ((Abs(a.v) * SCALE) \div Abs(b.v)))

\* f64::clamp: min if x < min, max if x > max, else x (so NaN stays NaN).
clamp(x, min, max) ==
    IF f64_lt(x, min) THEN min
    ELSE IF f64_lt(max, x) THEN max
    ELSE x

\* A u64 is four 16-bit limbs, most significant first.
LIMB == 65536

U64(n) == << 0, 0, n \div LIMB, n % LIMB >>

U64_MAX == << LIMB - 1, LIMB - 1, LIMB - 1, LIMB - 1 >>

u64_ge(x, y) ==
    LET differ == {i \in 1..4 : x[i] # y[i]}
        top    == CHOOSE i \in differ : \A j \in differ : i <= j
    IN  differ = {} \/ x[top] > y[top]

\* est_time as f64, for the values below a threshold of the model (the two
\* low limbs).
u64_as_f64(x) == Fin((x[3] * LIMB + x[4]) * SCALE)

\* ------------------------------------------------------------------------
\* The scorer  (services/scoring.rs)
\* ------------------------------------------------------------------------

\* Mutant: the default fee weight is -0.4.
DefaultScoringConfigFeePenalised ==
    [max_fee_threshold  |-> Fin(10),
     max_time_threshold |-> U64(3600),
     audit_bonus        |-> Fin(200),
     exploit_penalty    |-> Fin(500),
     weights            |-> [fee_weight      |-> Fin(-400),
                             time_weight     |-> Fin(400),
                             security_weight |-> Fin(200)]]

\* ScoringConfig::default(): 0.01, 3600, 0.2, 0.5 and weights 0.4/0.4/0.2.
DefaultScoringConfig ==
    [max_fee_threshold  |-> Fin(10),
     max_time_threshold |-> U64(3600),
     audit_bonus        |-> Fin(200),
     exploit_penalty    |-> Fin(500),
     weights            |-> [fee_weight      |-> Fin(400),
                             time_weight     |-> Fin(400),
                             security_weight |-> Fin(200)]]

calculate_score_with_config(fee, est_time, has_audit, has_exploit, config) ==
    LET one  == Fin(SCALE)
        zero == Fin(0)
        fee_score ==
            IF f64_le(fee, zero) THEN one
            ELSE IF f64_ge(fee, config.max_fee_threshold) THEN zero
            ELSE f64_sub(one, f64_div(fee, config.max_fee_threshold))
        time_score ==
            IF est_time = U64(0) THEN one
            ELSE IF u64_ge(est_time, config.max_time_threshold) THEN zero
            ELSE f64_sub(one, f64_div(u64_as_f64(est_time),
                                      u64_as_f64(config.max_time_threshold)))
        baseline == Fin(SCALE \div 2)
        audited  == IF has_audit THEN f64_add(baseline, config.audit_bonus)
                    ELSE baseline
        exploited == IF has_exploit THEN f64_sub(audited, config.exploit_penalty)
                     ELSE audited
        security_score == clamp(exploited, zero, one)
        final_score ==
            f64_add(f64_add(f64_mul(config.weights.fee_weight, fee_score),
                            f64_mul(config.weights.time_weight, time_score)),
                    f64_mul(config.weights.security_weight, security_score))
    IN  clamp(final_score, zero, one)

calculate_score(fee, est_time, has_audit, has_exploit) ==
    calculate_score_with_config(fee, est_time, has_audit, has_exploit,
                                DefaultScoringConfig)

VARIABLES
    agg_pc,        \* "idle" | "running" | "returned"
    agg_timeout,   \* config.timeout of the running call
    agg_clock,     \* ticks since get_all_bridge_quotes was called
    adapter,       \* per adapter: "pending" or a member of Settled
    agg_results,   \* the Vec<BridgeQuoteWithError> that was returned
    store,         \* the Redis keyspace: key -> [val, ttl]
    pc,            \* per handler: the await point it is suspended at
    req,           \* per handler: the request it is serving
    bridge_results,\* per handler: what get_all_bridge_quotes returned
    response,      \* per handler: the AggregatedQuotesResponse it built
    reply,         \* per handler: the HTTP response it sent
    hist,          \* per handler: what happened to its request (history)
    window,        \* SpecLimit: history of the current rate-limit window
    verdict,       \* SpecLimit: per handler, what the window says of its request
    agg_order,     \* SpecAggOrder: the adapters in the order they completed
    sc_pc,         \* "ready" | "done"
    sc_call,       \* the call made to the scorer, with its arguments
    sc_result,     \* what the call returned
    ad_name,       \* the adapter whose get_quote is called
    ad_mapping,    \* what its chain / asset mapping says of the request
    ad_sent,       \* number of requests sent to the provider
    rt_retries,    \* config.retries
    rt_pc,         \* "start" | "attempt" | "sleep" | "returned"
    rt_attempt,    \* the loop variable of retry_request
    rt_ran,        \* what each run of the operation returned (history)
    rt_slept,      \* the backoff delays slept, in ms (history)
    rt_result,     \* what the call returned
    fn_pc,         \* "ready" | "done"
    fn_call,       \* the call made to a function of the handler, with its arguments
    fn_result,     \* what the call returned
    hop_task,      \* per request: its HopConfig and its position in hop::get_quote
    hop_clock,     \* SpecHop: seconds since the server started
    hop_fetched,   \* SpecHop: the times the route list was requested (history)
    wt_point,      \* SpecBounded: the suspension point the handler is at
    wt_waited,     \* seconds the handler has been suspended at it
    wt_elapsed,    \* seconds since the request arrived
    wt_silent      \* the services that never answer

aggVars == << agg_pc, agg_timeout, agg_clock, adapter, agg_results >>

handlerVars == << store, pc, req, bridge_results, response, reply, hist, window, verdict >>

scoreVars == << sc_pc, sc_call, sc_result >>

callVars == << ad_name, ad_mapping, ad_sent, rt_retries, rt_pc, rt_attempt,
               rt_ran, rt_slept, rt_result >>

fnVars == << fn_pc, fn_call, fn_result >>

hopVars == << hop_task, hop_clock, hop_fetched >>

waitVars == << wt_point, wt_waited, wt_elapsed, wt_silent >>

pureVars == << scoreVars, callVars, fnVars, hopVars, waitVars >>

vars == << agg_pc, agg_timeout, agg_clock, adapter, agg_results,
           store, pc, req, bridge_results, response, reply, hist, window, verdict,
           agg_order, sc_pc, sc_call, sc_result,
           ad_name, ad_mapping, ad_sent, rt_retries, rt_pc, rt_attempt,
           rt_ran, rt_slept, rt_result, fn_pc, fn_call, fn_result,
           hop_task, hop_clock, hop_fetched,
           wt_point, wt_waited, wt_elapsed, wt_silent >>

\* ------------------------------------------------------------------------
\* get_all_bridge_quotes  (services/bridge_client.rs)
\* ------------------------------------------------------------------------

\* The element pushed for one adapter by its `match <adapter>_result` block.
\* The BridgeQuote an adapter returns when it returns one: the first adapter
\* of the registry charges half the fee threshold and takes half an hour, the
\* others are free and take a quarter of an hour.
QuoteFrom(bridge) ==
    [bridge   |-> bridge,
     fee      |-> IF bridge = Registry[1] THEN Fin(5) ELSE Fin(0),
     est_time |-> IF bridge = Registry[1] THEN U64(1800) ELSE U64(900)]

ResultEntry(bridge, res, secs) ==
    CASE res = "quote" ->
            [bridge |-> bridge,
             quote  |-> Some(QuoteFrom(bridge)),
             error  |-> None]
      [] res = "error" ->
            [bridge |-> bridge,
             quote  |-> None,
             error  |-> Some([kind |-> "BridgeError", secs |-> 0])]
      [] res = "elapsed" ->
            [bridge |-> bridge,
             quote  |-> None,
             error  |-> Some([kind |-> "Timeout after", secs |-> secs])]

\* Mutant: a timed-out adapter contributes no entry.
CollectResultsDropElapsed(res, secs) ==
    LET kept == SelectSeq([i \in AdapterIdx |-> i], LAMBDA i : res[i] # "elapsed")
    IN  [k \in 1..Len(kept) |-> ResultEntry(Registry[kept[k]], res[kept[k]], secs)]

\* Mutant: the entries are pushed as the adapters complete, the ones that
\* ran into the deadline last.
CollectResultsInCompletionOrder(res, secs) ==
    LET late  == SelectSeq([i \in AdapterIdx |-> i],
                           LAMBDA i : \A k \in DOMAIN agg_order : agg_order[k] # i)
        order == agg_order \o late
    IN  [k \in AdapterIdx |-> ResultEntry(Registry[order[k]], res[order[k]], secs)]

\* The ten match blocks, executed in registry order after the join.
CollectResults(res, secs) ==
    [i \in AdapterIdx |-> ResultEntry(Registry[i], res[i], secs)]

\* Mutant: one adapter future is joined without the timeout wrapper.
TimeoutWrappedExceptHop(i) == Registry[i] # "Hop"

\* Every adapter future is passed through timeout(bridge_timeout, ...).
TimeoutWrapped(i) == TRUE

\* get_all_bridge_quotes is called with config.timeout = t.
AggCall(t) ==
    /\ agg_pc \in {"idle", "returned"}
    /\ agg_pc' = "running"
    /\ agg_timeout' = t
    /\ agg_clock' = 0
    /\ adapter' = [i \in AdapterIdx |-> "pending"]
    /\ agg_results' = << >>
    /\ UNCHANGED << handlerVars, pureVars >>

\* Adapter i's get_quote future completes (with a quote or a BridgeError)
\* before its timer has fired.  Until then the future is suspended at one of
\* its await points: a provider call, a backoff sleep, the Hop route
\* refresh or a cache command.
AdapterSettle(i, res) ==
    /\ agg_pc = "running"
    /\ adapter[i] = "pending"
    /\ res \in {"quote", "error"}
    /\ adapter' = [adapter EXCEPT ![i] = res]
    /\ UNCHANGED << agg_pc, agg_timeout, agg_clock, agg_results >>
    /\ UNCHANGED << handlerVars, pureVars >>

\* The timers were all armed in the same poll with the same duration:
\* when bridge_timeout has elapsed every wrapped future that is still
\* pending resolves to Err(Elapsed).
DeadlineElapsed ==
    /\ agg_pc = "running"
    /\ agg_clock = agg_timeout
    /\ \E i \in AdapterIdx : adapter[i] = "pending" /\ TimeoutWrapped(i)
    /\ adapter' = [i \in AdapterIdx |->
                     IF adapter[i] = "pending" /\ TimeoutWrapped(i)
                     THEN "elapsed" ELSE adapter[i]]
    /\ UNCHANGED << agg_pc, agg_timeout, agg_clock, agg_results >>
    /\ UNCHANGED << handlerVars, pureVars >>

\* Time passes while the join is still waiting.  A timer that is due fires
\* before the clock moves on.
AggTick ==
    /\ agg_pc = "running"
    /\ \E i \in AdapterIdx : adapter[i] = "pending"
    /\ \/ agg_clock < agg_timeout
       \/ /\ agg_clock < MaxTimeout + 1
          /\ \A i \in AdapterIdx : adapter[i] = "pending" => ~TimeoutWrapped(i)
    /\ agg_clock' = agg_clock + 1
    /\ UNCHANGED << agg_pc, agg_timeout, adapter, agg_results >>
    /\ UNCHANGED << handlerVars, pureVars >>

\* tokio::join! completes once all ten futures have; the match blocks run.
AggReturn ==
    /\ agg_pc = "running"
    /\ \A i \in AdapterIdx : adapter[i] \in Settled
    /\ agg_pc' = "returned"
    /\ agg_results' = CollectResults(adapter, agg_timeout)
    /\ UNCHANGED << agg_timeout, agg_clock, adapter >>
    /\ UNCHANGED << handlerVars, pureVars >>

\* ------------------------------------------------------------------------
\* retry_request and the adapters  (services/bridge_client.rs,
\* services/bridge_client/*.rs)
\* ------------------------------------------------------------------------

\* A Result<BridgeQuote, BridgeError>: what is Ok's kind of quote or Err's
\* variant; provider is what the provider did in the attempt that made it.
Ok(what, provider) == [tag |-> "Ok", what |-> what, provider |-> provider]

Err(what, provider) == [tag |-> "Err", what |-> what, provider |-> provider]

\* The variants of BridgeError.
BridgeErrors ==
    {"Timeout", "BadResponse", "UnsupportedAsset", "UnsupportedRoute", "Network",
     "JsonParsing", "RateLimited", "ServiceUnavailable", "Internal"}

\* Mutant: a JSON parsing error is retried like a network error.
NonRetryableUnsupportedOnly(what) == what \in {"UnsupportedAsset", "UnsupportedRoute"}

\* The errors retry_request returns at once.
NonRetryable(what) == what \in {"UnsupportedAsset", "UnsupportedRoute", "JsonParsing"}

\* Mutant: the same delay before every further attempt.
fixed_delay_ms(attempt) == 100

\* Duration::from_millis(100 * 2^attempt)
backoff_ms(attempt) == 100 * (2 ^ attempt)

\* One iteration of the loop of retry_request, the operation having
\* returned result: return it, or sleep before the next attempt.  After the
\* last attempt the loop ends and the last error is returned.
RetryIteration(result) ==
    /\ rt_pc = "attempt"
    /\ rt_ran' = Append(rt_ran, result)
    /\ IF result.tag = "Ok"
          \/ (rt_attempt < rt_retries /\ NonRetryable(result.what))
          \/ rt_attempt >= rt_retries
       THEN /\ rt_pc' = "returned"
            /\ rt_result' = Some(result)
            /\ UNCHANGED << rt_attempt, rt_slept >>
       ELSE /\ rt_pc' = "sleep"
            /\ rt_slept' = Append(rt_slept, backoff_ms(rt_attempt))
            /\ UNCHANGED << rt_attempt, rt_result >>
    /\ UNCHANGED << rt_retries, ad_name, ad_mapping >>
    /\ UNCHANGED << aggVars, agg_order, handlerVars, scoreVars, fnVars, hopVars, waitVars >>

\* tokio::time::sleep(delay) is over: the next attempt.
Backoff ==
    /\ rt_pc = "sleep"
    /\ rt_attempt' = rt_attempt + 1
    /\ rt_pc' = "attempt"
    /\ UNCHANGED << rt_retries, rt_ran, rt_slept, rt_result, ad_name, ad_mapping, ad_sent >>
    /\ UNCHANGED << aggVars, agg_order, handlerVars, scoreVars, fnVars, hopVars, waitVars >>

\* retry_request(operation, retries, ..) with a closure that returns result.
Operation(result) ==
    /\ RetryIteration(result)
    /\ UNCHANGED ad_sent

\* What the provider does with one request:
\*   "quote"         2xx with a body the adapter can use
\*   "send_error"    send() fails (connection error, client timeout)
\*   "send_timeout"  send() exceeds config.timeout (Hop wraps it in a timeout)
\*   "non_2xx"       a status that is not a success
\*   "body_error"    2xx, but reading the body fails
\*   "parse_error"   2xx with a body that is not the expected JSON
\*   "rejected"      2xx with parseable JSON that holds an error or an
\*                   amount the adapter cannot use
ProviderOutcomes ==
    {"quote", "send_error", "send_timeout", "non_2xx", "body_error",
     "parse_error", "rejected"}

\* Adapters whose fetch_*_quote_once has no provider call and returns
\* create_*_estimate(request).
EstimateOnly == {"Wormhole", "LayerZero", "Synapse"}

\* create_*_estimate: the mapping is verified again, then the estimate.
create_estimate(mapping, provider) ==
    IF mapping = "ok" THEN Ok("estimate", provider) ELSE Err(mapping, provider)

\* fetch_hop_quote_once: no mapping and no estimate.
fetch_hop_quote_once(provider) ==
    CASE provider = "quote"        -> Ok("quote", provider)
      [] provider = "send_timeout" -> Err("Timeout", provider)
      [] provider = "send_error"   -> Err("Network", provider)
      [] provider = "non_2xx"      -> Err("BadResponse", provider)
      [] provider = "body_error"   -> Err("Network", provider)
      [] provider = "parse_error"  -> Err("BadResponse", provider)
      [] provider = "rejected"     -> Err("BadResponse", provider)

\* Mutant: the provider is asked before the request is mapped.
fetch_quote_once_mapping_last(name, mapping, provider) ==
    IF name = "Hop" THEN fetch_hop_quote_once(provider)
    ELSE IF name \in EstimateOnly THEN create_estimate(mapping, "none")
    ELSE CASE provider \in {"send_error", "send_timeout", "non_2xx", "parse_error"} ->
                create_estimate("ok", provider)
           [] provider = "body_error" -> Err("Network", provider)
           [] provider = "rejected"   -> Err("BadResponse", provider)
           [] provider = "quote"      ->
                IF mapping = "ok" THEN Ok("quote", provider) ELSE Err(mapping, provider)

\* fetch_<adapter>_quote_once: chain and asset mapping first, with ?; then
\* the provider call, falling back to the estimate.
fetch_quote_once(name, mapping, provider) ==
    IF name = "Hop" THEN fetch_hop_quote_once(provider)
    ELSE IF mapping # "ok" THEN Err(mapping, "none")
    ELSE IF name \in EstimateOnly THEN create_estimate(mapping, "none")
    ELSE CASE provider \in {"send_error", "send_timeout", "non_2xx", "parse_error"} ->
                create_estimate(mapping, provider)
           [] provider = "body_error" -> Err("Network", provider)
           [] provider = "rejected"   -> Err("BadResponse", provider)
           [] provider = "quote"      -> Ok("quote", provider)

\* <adapter>::get_quote is called.  Hop checks the route against its route
\* list first; then get_cached_quote returns the adapter's cached quote
\* when there is one, or fetches.
GetQuote(cached) ==
    /\ rt_pc = "start"
    /\ IF ad_name = "Hop" /\ ad_mapping # "ok"
       THEN /\ rt_pc' = "returned"
            /\ rt_result' = Some(Err("UnsupportedRoute", "none"))
       ELSE IF cached
            THEN /\ ad_mapping = "ok"
                 /\ rt_pc' = "returned"
                 /\ rt_result' = Some(Ok("cached", "none"))
            ELSE /\ rt_pc' = "attempt"
                 /\ UNCHANGED rt_result
    /\ UNCHANGED << rt_retries, rt_attempt, rt_ran, rt_slept, ad_name, ad_mapping, ad_sent >>
    /\ UNCHANGED << aggVars, agg_order, handlerVars, scoreVars, fnVars, hopVars, waitVars >>

\* One run of fetch_<adapter>_quote_once inside retry_request.
Attempt(provider) ==
    LET result == fetch_quote_once(ad_name, ad_mapping, provider)
    IN  /\ RetryIteration(result)
        /\ ad_sent' = IF result.provider = "none" THEN ad_sent ELSE ad_sent + 1

\* ------------------------------------------------------------------------
\* The store  (cache/mod.rs: the commands CacheClient sends to Redis)
\* ------------------------------------------------------------------------

\* store maps each existing key to [val, ttl]; ttl is the remaining life in
\* seconds, and ttl = 0 marks a key without expiry (Redis TTL -1).
Persistent == 0

HasKey(st, k) == k \in DOMAIN st

\* INCRBY key delta: a missing key counts as 0 and is created without expiry.
INCRBY(st, k, delta) ==
    IF HasKey(st, k)
    THEN [st EXCEPT ![k].val = @ + delta]
    ELSE [x \in DOMAIN st \cup {k} |->
            IF x = k THEN [val |-> delta, ttl |-> Persistent] ELSE st[x]]

\* EXPIRE key seconds: no effect on a missing key.
EXPIRE(st, k, seconds) ==
    IF HasKey(st, k) THEN [st EXCEPT ![k].ttl = seconds] ELSE st

\* SETEX key seconds value
SETEX(st, k, seconds, v) ==
    [x \in DOMAIN st \cup {k} |->
        IF x = k THEN [val |-> v, ttl |-> seconds] ELSE st[x]]

\* GET key
GET(st, k) == IF HasKey(st, k) THEN Some(st[k].val) ELSE None

\* The keyspace after d seconds: expired keys are gone.
Elapse(st, d) ==
    LET live == {k \in DOMAIN st : st[k].ttl = Persistent \/ st[k].ttl > d}
    IN  [k \in live |->
            IF st[k].ttl = Persistent THEN st[k]
            ELSE [st[k] EXCEPT !.ttl = @ - d]]

\* CacheClient::increment as seen by the caller: Ok(count) or Err.
increment(st, k, o) ==
    [store  |-> IF o \in {"ok", "lost"} THEN INCRBY(st, k, 1) ELSE st,
     result |-> IF o = "ok" THEN Some(INCRBY(st, k, 1)[k].val) ELSE None]

\* CacheClient::expire
expire(st, k, seconds, o) ==
    IF o \in {"ok", "lost"} THEN EXPIRE(st, k, seconds) ELSE st

\* CacheClient::set_cache (ttl_seconds > 0: SETEX)
set_cache(st, k, v, seconds, o) ==
    IF o \in {"ok", "lost"} THEN SETEX(st, k, seconds, v) ELSE st

\* Mutant: a failed read yields the default value (unwrap_or_default).
get_cache_default_on_failure(st, k, o) ==
    IF o = "ok"
    THEN [ok |-> TRUE, value |-> GET(st, k)]
    ELSE [ok |-> TRUE, value |-> Some([routes |-> << >>, errors |-> << >>])]

\* Mutant: every reply is Ok(None).
get_cache_always_miss(st, k, o) ==
    IF o = "ok"
    THEN [ok |-> TRUE, value |-> None]
    ELSE [ok |-> FALSE, value |-> None]

\* CacheClient::get_cache as seen by the caller: Ok(Some), Ok(None) or Err
\* (a GET changes nothing, so a lost reply is an Err).
get_cache(st, k, o) ==
    IF o = "ok"
    THEN [ok |-> TRUE, value |-> GET(st, k)]
    ELSE [ok |-> FALSE, value |-> None]

\* ------------------------------------------------------------------------
\* GET /quotes: pure helpers  (routes/quotes.rs)
\* ------------------------------------------------------------------------

RATE_LIMIT_PER_MINUTE == 100
RATE_LIMIT_WINDOW_SECONDS == 60
QUOTE_CACHE_TTL_SECONDS == 15
MAX_STALE_CACHE_AGE_SECONDS == 300
BRIDGE_TIMEOUT_SECONDS == 5

Unknown == << "u", "n", "k", "n", "o", "w", "n" >>
Localhost == << "1", "2", "7", ".", "0", ".", "0", ".", "1" >>

\* forwarded_str.split(',').next()
FirstToken(s) ==
    LET commas == {k \in DOMAIN s : s[k] = ","}
    IN  IF commas = {} THEN s
        ELSE SubSeq(s, 1, (CHOOSE k \in commas : \A m \in commas : k <= m) - 1)

\* str::trim, for the blank the headers of the model can contain
Trim(s) ==
    LET solid == {k \in DOMAIN s : s[k] # " "}
    IN  IF solid = {} THEN << >>
        ELSE SubSeq(s,
                    CHOOSE k \in solid : \A m \in solid : k <= m,
                    CHOOSE k \in solid : \A m \in solid : k >= m)

\* HeaderValue::to_str succeeds when every byte is visible ASCII; "OPAQUE"
\* stands for a byte that is not.
to_str_ok(value) == \A k \in DOMAIN value : value[k] # "OPAQUE"

\* A request carries its query parameters, the three proxy headers
\* (Option<value>), the types of the values in its extensions, and the peer
\* address of its connection.  connect_info is Option<SocketAddr>.
extract_client_ip(request, connect_info) ==
    LET xff == IF request.x_forwarded_for = None THEN << >>
               ELSE Trim(FirstToken(request.x_forwarded_for[1]))
    IN  IF /\ request.x_forwarded_for # None
           /\ to_str_ok(request.x_forwarded_for[1])
           /\ xff # << >> /\ xff # Unknown
        THEN xff
        ELSE IF /\ request.x_real_ip # None
                /\ to_str_ok(request.x_real_ip[1])
                /\ request.x_real_ip[1] # << >>
                /\ request.x_real_ip[1] # Unknown
        THEN request.x_real_ip[1]
        ELSE IF /\ request.cf_connecting_ip # None
                /\ to_str_ok(request.cf_connecting_ip[1])
                /\ request.cf_connecting_ip[1] # << >>
                /\ request.cf_connecting_ip[1] # Unknown
        THEN request.cf_connecting_ip[1]
        ELSE IF connect_info # None THEN connect_info[1].ip ELSE Localhost

\* request.extensions().get::<SocketAddr>(): the value of that type, which
\* is the peer address when some layer stored it.
extensions_get_SocketAddr(request) ==
    IF "SocketAddr" \in request.extensions THEN Some(request.peer) ELSE None

\* let client_ip = extract_client_ip(&request, connect_info)
client_ip(request) == extract_client_ip(request, extensions_get_SocketAddr(request))

\* format!("rate_limit:quotes:{}", client_ip)
rate_limit_key(request) == << "rate_limit:quotes:", client_ip(request) >>

\* format!("quotes:{}:{}:{}:{}", from.to_lowercase(), to.to_lowercase(),
\*         token.to_uppercase(), amount)
generate_cache_key(params) ==
    << "quotes:", to_lowercase(params.from_chain), to_lowercase(params.to_chain),
       to_uppercase(params.token), params.amount >>

\* Mutant: the second copy is written under the base key.
stale_cache_key_unsuffixed(params) == generate_cache_key(params)

\* format!("{}_stale", cache_key)
stale_cache_key(params) == Append(generate_cache_key(params), "_stale")

\* Mutant: the limit is reached one request early.
OverLimitAtCap(request_count) == request_count >= RATE_LIMIT_PER_MINUTE

\* `if request_count > 100`
OverLimit(request_count) == request_count > RATE_LIMIT_PER_MINUTE

\* Mutant: a failed increment counts as over the limit (fail closed).
RequestCountFailClosed(result) ==
    IF result = None THEN RATE_LIMIT_PER_MINUTE + 1 ELSE result[1]

\* `match increment(..) { Ok(count) => count, Err(e) => 0 }`
RequestCount(result) == IF result = None THEN 0 ELSE result[1]

\* The five parameter checks, in the order of the code; None when all pass.
ValidationError(params) ==
    IF params.from_chain = << >> THEN Some("from_chain parameter is required")
    ELSE IF params.to_chain = << >> THEN Some("to_chain parameter is required")
    ELSE IF params.token = << >> THEN Some("token parameter is required")
    ELSE IF params.amount <= 0 THEN Some("amount must be greater than 0")
    ELSE IF eq_ignore_ascii_case(params.from_chain, params.to_chain)
    THEN Some("Source and destination chains must be different")
    ELSE None

\* HTTP responses.  An ErrorResponse body has the single field `error`;
\* an AggregatedQuotesResponse body has `routes` and `errors`.
NoReply ==
    [status |-> 0, x_cache |-> "", cache_control |-> "", warning |-> "",
     body |-> [error |-> "", routes |-> << >>, errors |-> << >>]]

ErrorReply(status, message) ==
    [status |-> status, x_cache |-> "", cache_control |-> "", warning |-> "",
     body |-> [error |-> message, routes |-> << >>, errors |-> << >>]]

\* Mutant: the Warning header is left out.
QuotesReplyNoWarning(x_cache, cache_control, warning, resp) ==
    [status |-> 200, x_cache |-> x_cache, cache_control |-> cache_control,
     warning |-> "",
     body |-> [error |-> "", routes |-> resp.routes, errors |-> resp.errors]]

\* A 200 response carrying an AggregatedQuotesResponse and the cache headers.
QuotesReply(x_cache, cache_control, warning, resp) ==
    [status |-> 200, x_cache |-> x_cache, cache_control |-> cache_control,
     warning |-> warning,
     body |-> [error |-> "", routes |-> resp.routes, errors |-> resp.errors]]

NoResponse == [routes |-> << >>, errors |-> << >>]

\* `for result in &bridge_results`: the quotes and the errors, in order.
PartitionQuotes(results) ==
    LET withQuote == SelectSeq(results, LAMBDA r : r.quote # None)
    IN  [k \in 1..Len(withQuote) |-> withQuote[k].quote[1]]

PartitionErrors(results) ==
    LET withError == SelectSeq(results, LAMBDA r : r.error # None)
    IN  [k \in 1..Len(withError) |->
            [bridge |-> withError[k].bridge, error |-> withError[k].error[1]]]

\* convert_bridge_quote_to_response_with_score
convert_bridge_quote_to_response_with_score(quote, score) ==
    [bridge   |-> quote.bridge,
     cost     |-> quote.fee,
     est_time |-> quote.est_time,
     score    |-> score]

\* Mutant: without metadata no route is returned.
process_quotes_require_metadata(quotes, meta) ==
    IF meta.kind # "rows" THEN << >>
    ELSE [k \in DOMAIN quotes |->
            convert_bridge_quote_to_response_with_score(
                quotes[k],
                calculate_score(quotes[k].fee, quotes[k].est_time, TRUE, FALSE))]

\* process_quotes_with_security: meta is the outcome of the 3 s metadata
\* lookup, [kind |-> "rows" | "error" | "elapsed", rows |-> <<...>>].
\* security_map is a HashMap collected from the rows: of two rows for one
\* bridge the later one stays.
process_quotes_with_security(quotes, meta) ==
    LET security_metadata == IF meta.kind = "rows" THEN meta.rows ELSE << >>
        Found(b) == {k \in DOMAIN security_metadata : security_metadata[k].bridge = b}
        Row(b) == security_metadata[CHOOSE k \in Found(b) : \A m \in Found(b) : k >= m]
        has_audit(b)   == IF Found(b) = {} THEN FALSE ELSE Row(b).has_audit
        has_exploit(b) == IF Found(b) = {} THEN FALSE ELSE Row(b).has_exploit
    IN  [k \in DOMAIN quotes |->
            convert_bridge_quote_to_response_with_score(
                quotes[k],
                calculate_score(quotes[k].fee, quotes[k].est_time,
                                has_audit(quotes[k].bridge),
                                has_exploit(quotes[k].bridge)))]

\* Mutant: the collected errors are always reported.
BuildResponseKeepErrors(routes, errors) == [routes |-> routes, errors |-> errors]

\* The AggregatedQuotesResponse built after scoring.
BuildResponse(routes, errors) ==
    [routes |-> routes,
     errors |-> IF routes = << >> /\ errors # << >> THEN errors ELSE << >>]

\* Mutant: the emptiness check is left out.
AllFailedUnchecked(results) == FALSE

\* `if quotes.is_empty()`
AllFailed(results) == PartitionQuotes(results) = << >>

\* The bridges whose adapter future resolved to Ok(Ok(quote)), in registry
\* order (history: what the adapters did, whatever the handler makes of it).
QuotedBridges(outcome) ==
    LET won == SelectSeq([i \in AdapterIdx |-> i], LAMBDA i : outcome[i] = "quote")
    IN  [k \in 1..Len(won) |-> Registry[won[k]]]

\* ------------------------------------------------------------------------
\* GET /quotes: the handler, one action per await point  (get_quotes)
\* ------------------------------------------------------------------------

Handlers == 1..MaxHandlers

\* Await points at which a handler future can be suspended (and dropped).
AwaitPoints ==
    {"limit", "expire", "probe", "aggregate", "stale", "score",
     "write_fresh", "write_stale"}

NoHist ==
    [incr |-> "none",
     fresh |-> "none", fresh_present |-> FALSE,
     stale |-> "none", stale_present |-> FALSE,
     invoked |-> FALSE, quoted |-> << >>, cached |-> "none"]

NewWindow == [admitted |-> 0, clean |-> TRUE, age |-> 0]

NoVerdict == [judged |-> FALSE, over |-> FALSE]

HandlerInit ==
    /\ store = << >>
    /\ pc = [p \in Handlers |-> "idle"]
    /\ req = [p \in Handlers |-> << >>]
    /\ bridge_results = [p \in Handlers |-> << >>]
    /\ response = [p \in Handlers |-> NoResponse]
    /\ reply = [p \in Handlers |-> NoReply]
    /\ hist = [p \in Handlers |-> NoHist]
    /\ window = NewWindow
    /\ verdict = [p \in Handlers |-> NoVerdict]

AggInit ==
    /\ agg_pc = "idle"
    /\ agg_timeout = 0
    /\ agg_clock = 0
    /\ adapter = [i \in AdapterIdx |-> "pending"]
    /\ agg_results = << >>

\* No call to the scorer or to an adapter is under way.
ScoreIdle ==
    /\ sc_pc = "done"
    /\ sc_call = << >>
    /\ sc_result = << >>

CallIdle ==
    /\ ad_name = ""
    /\ ad_mapping = ""
    /\ ad_sent = 0
    /\ rt_retries = 0
    /\ rt_pc = "returned"
    /\ rt_attempt = 0
    /\ rt_ran = << >>
    /\ rt_slept = << >>
    /\ rt_result = << >>

FnIdle ==
    /\ fn_pc = "done"
    /\ fn_call = << >>
    /\ fn_result = << >>

\* A request that has not reached the Hop adapter.
NoHopTask ==
    [pc |-> "idle", write_held |-> FALSE, table |-> "empty", last_updated |-> None,
     refresh |-> "none", attempted |-> FALSE, result |-> "none"]

HopTasks == 1..MaxHopTasks

HopIdle ==
    /\ hop_task = [t \in HopTasks |-> NoHopTask]
    /\ hop_clock = 0
    /\ hop_fetched = << >>

\* No request is followed through its suspension points.
NotReceived == [op |-> "none", step |-> "idle"]

WaitIdle ==
    /\ wt_point = NotReceived
    /\ wt_waited = 0
    /\ wt_elapsed = 0
    /\ wt_silent = {}

Init ==
    /\ AggInit /\ HandlerInit /\ agg_order = << >>
    /\ ScoreIdle /\ CallIdle /\ FnIdle /\ HopIdle /\ WaitIdle

\* The handler answers: its future completes with the response r.
Respond(p, r) ==
    /\ pc' = [pc EXCEPT ![p] = "done"]
    /\ reply' = [reply EXCEPT ![p] = r]

\* A request arrives and handler task p starts serving it.
Receive(p, q) ==
    /\ pc[p] \in {"idle", "done"}
    /\ pc' = [pc EXCEPT ![p] = "limit"]
    /\ req' = [req EXCEPT ![p] = Some(q)]
    /\ bridge_results' = [bridge_results EXCEPT ![p] = << >>]
    /\ response' = [response EXCEPT ![p] = NoResponse]
    /\ reply' = [reply EXCEPT ![p] = NoReply]
    /\ hist' = [hist EXCEPT ![p] = NoHist]
    /\ verdict' = [verdict EXCEPT ![p] = NoVerdict]
    /\ UNCHANGED << store, window >>
    /\ UNCHANGED << aggVars, agg_order, pureVars >>

\* The parameter checks that follow the rate limiter: answer 400, or go on
\* to the fresh-cache probe.
Validate(p) ==
    LET verr == ValidationError(req[p][1].params)
    IN  IF verr # None
        THEN Respond(p, ErrorReply(400, verr[1]))
        ELSE /\ pc' = [pc EXCEPT ![p] = "probe"]
             /\ UNCHANGED reply

\* cache().increment(rate_limit_key, 1) returns; the limit check follows,
\* and for any other count than 1 the parameter checks.
Increment(p, o) ==
    LET key == rate_limit_key(req[p][1])
        r == increment(store, key, o)
        request_count == RequestCount(r.result)
    IN  /\ pc[p] = "limit"
        /\ store' = r.store
        /\ hist' = [hist EXCEPT ![p].incr = o]
        /\ IF OverLimit(request_count)
           THEN Respond(p, ErrorReply(429,
                    "Rate limit exceeded. Maximum 100 requests per minute."))
           ELSE IF request_count = 1
           THEN /\ pc' = [pc EXCEPT ![p] = "expire"]
                /\ UNCHANGED reply
           ELSE Validate(p)
        /\ UNCHANGED << req, bridge_results, response >>
        /\ UNCHANGED << aggVars, agg_order, pureVars >>

\* cache().expire(rate_limit_key, 60) returns; the parameter checks follow.
Expire(p, o) ==
    /\ pc[p] = "expire"
    /\ store' = expire(store, rate_limit_key(req[p][1]), RATE_LIMIT_WINDOW_SECONDS, o)
    /\ Validate(p)
    /\ UNCHANGED << req, bridge_results, response, hist, window, verdict >>
    /\ UNCHANGED << aggVars, agg_order, pureVars >>

\* get_cache(cache_key) returns: a hit is answered at once.
FreshProbe(p, o) ==
    LET got == get_cache(store, generate_cache_key(req[p][1].params), o)
    IN  /\ pc[p] = "probe"
        /\ hist' = [hist EXCEPT ![p].fresh =
                      IF ~got.ok THEN "err"
                      ELSE IF got.value = None THEN "miss" ELSE "hit",
                                ![p].fresh_present =
                      HasKey(store, generate_cache_key(req[p][1].params))]
        /\ IF got.ok /\ got.value # None
           THEN Respond(p, QuotesReply("HIT", "public, max-age=15", "", got.value[1]))
           ELSE /\ pc' = [pc EXCEPT ![p] = "aggregate"]
                /\ UNCHANGED reply
        /\ UNCHANGED << store, req, bridge_results, response, window, verdict >>
        /\ UNCHANGED << aggVars, agg_order, pureVars >>

\* get_all_bridge_quotes(&request, &config) returns; outcome[i] is what the
\* i-th timeout-wrapped adapter future resolved to.
Aggregate(p, outcome) ==
    LET results == CollectResults(outcome, BRIDGE_TIMEOUT_SECONDS)
    IN  /\ pc[p] = "aggregate"
        /\ bridge_results' = [bridge_results EXCEPT ![p] = results]
        /\ hist' = [hist EXCEPT ![p].invoked = TRUE,
                                ![p].quoted = QuotedBridges(outcome)]
        /\ pc' = [pc EXCEPT ![p] = IF AllFailed(results) THEN "stale" ELSE "score"]
        /\ UNCHANGED << store, req, response, reply, window, verdict >>
        /\ UNCHANGED << aggVars, agg_order, pureVars >>

\* No quotes: get_cache(stale_cache_key) returns; a hit is served as STALE,
\* anything else ends in 502.  The collected results go out of scope.
StaleProbe(p, o) ==
    LET skey == stale_cache_key(req[p][1].params)
        got == get_cache(store, skey, o)
    IN  /\ pc[p] = "stale"
        /\ hist' = [hist EXCEPT ![p].stale =
                      IF ~got.ok THEN "err"
                      ELSE IF got.value = None THEN "miss" ELSE "hit",
                                ![p].stale_present = HasKey(store, skey)]
        /\ IF got.ok /\ got.value # None
           THEN Respond(p, QuotesReply("STALE", "public, max-age=0, must-revalidate",
                                       "110 - \"Response is Stale\"", got.value[1]))
           ELSE Respond(p, ErrorReply(502,
                    "No quotes available and no cached data found"))
        /\ bridge_results' = [bridge_results EXCEPT ![p] = << >>]
        /\ UNCHANGED << store, req, response, window, verdict >>
        /\ UNCHANGED << aggVars, agg_order, pureVars >>

\* process_quotes_with_security returns and the response is built; quotes
\* and errors are moved into it.
Score(p, meta) ==
    LET routes == process_quotes_with_security(PartitionQuotes(bridge_results[p]), meta)
    IN  /\ pc[p] = "score"
        /\ response' = [response EXCEPT ![p] =
                          BuildResponse(routes, PartitionErrors(bridge_results[p]))]
        /\ bridge_results' = [bridge_results EXCEPT ![p] = << >>]
        /\ pc' = [pc EXCEPT ![p] = "write_fresh"]
        /\ UNCHANGED << store, req, reply, hist, window, verdict >>
        /\ UNCHANGED << aggVars, agg_order, pureVars >>

\* set_cache(cache_key, response, 15) returns; a failure is only logged.
WriteFresh(p, o) ==
    /\ pc[p] = "write_fresh"
    /\ store' = set_cache(store, generate_cache_key(req[p][1].params),
                          response[p], QUOTE_CACHE_TTL_SECONDS, o)
    /\ pc' = [pc EXCEPT ![p] = "write_stale"]
    /\ hist' = [hist EXCEPT ![p].cached = o]
    /\ UNCHANGED << req, bridge_results, response, reply, window, verdict >>
    /\ UNCHANGED << aggVars, agg_order, pureVars >>

\* set_cache(stale_cache_key, response, 300) returns; the response is moved
\* into the MISS reply.
WriteStale(p, o) ==
    /\ pc[p] = "write_stale"
    /\ store' = set_cache(store, stale_cache_key(req[p][1].params),
                          response[p], MAX_STALE_CACHE_AGE_SECONDS, o)
    /\ Respond(p, QuotesReply("MISS", "public, max-age=15", "", response[p]))
    /\ response' = [response EXCEPT ![p] = NoResponse]
    /\ UNCHANGED << req, bridge_results, hist, window, verdict >>
    /\ UNCHANGED << aggVars, agg_order, pureVars >>

\* The client goes away and the server drops the handler future at the
\* await point it is suspended at.
Stop(p) ==
    /\ pc[p] \in AwaitPoints
    /\ pc' = [pc EXCEPT ![p] = "idle"]
    /\ req' = [req EXCEPT ![p] = << >>]
    /\ bridge_results' = [bridge_results EXCEPT ![p] = << >>]
    /\ response' = [response EXCEPT ![p] = NoResponse]
    /\ reply' = [reply EXCEPT ![p] = NoReply]
    /\ hist' = [hist EXCEPT ![p] = NoHist]
    /\ verdict' = [verdict EXCEPT ![p] = NoVerdict]
    /\ UNCHANGED << store, window >>
    /\ UNCHANGED << aggVars, agg_order, pureVars >>

\* d seconds pass: TTLs run down and expired keys disappear.
Advance(d) ==
    /\ store # << >>
    /\ store' = Elapse(store, d)
    /\ UNCHANGED << pc, req, bridge_results, response, reply, hist, verdict >>
    /\ UNCHANGED << aggVars, agg_order, pureVars >>

\* ------------------------------------------------------------------------
\* Inputs
\* ------------------------------------------------------------------------

Eth == << "e", "t", "h" >>
EthUpper == << "E", "T", "H" >>
Op == << "o", "p" >>
Usdc == << "u", "s", "d", "c" >>
ClientIp == << "1", "0", ".", "0", ".", "0", ".", "7" >>

\* fn default_slippage() -> f64 { 0.5 }
default_slippage == Fin(SCALE \div 2)

\* Parameters that pass validation: the same route in two spellings.
ValidParams ==
    [from_chain : {Eth, EthUpper}, to_chain : {Op}, token : {Usdc}, amount : {1},
     slippage : {default_slippage}]

BaseParams ==
    [from_chain |-> Eth, to_chain |-> Op, token |-> Usdc, amount |-> 1,
     slippage |-> default_slippage]

\* Valid parameters, and parameters with exactly one fault.
ParamChoices ==
    ValidParams
    \cup {[BaseParams EXCEPT !.from_chain = << >>],
          [BaseParams EXCEPT !.to_chain = << >>],
          [BaseParams EXCEPT !.token = << >>],
          [BaseParams EXCEPT !.amount = 0]}
    \cup {[q EXCEPT !.to_chain = Eth] : q \in ValidParams}

\* What the layers of the server store in a request's extensions: the
\* trace id (main.rs, trace_id_middleware); axum::serve stores no address.
ServerExtensions == {"TraceId"}

\* Requests of one client that reaches the server directly (no proxy headers).
Requests ==
    {[params |-> q, x_forwarded_for |-> None, x_real_ip |-> None,
      cf_connecting_ip |-> None, extensions |-> ServerExtensions,
      peer |-> [ip |-> ClientIp, port |-> 50000]] : q \in ParamChoices}

\* The request whose chains differ in spelling only.
SameChainRequests ==
    {r \in Requests :
        /\ r.params.from_chain # r.params.to_chain
        /\ to_lowercase(r.params.from_chain) = to_lowercase(r.params.to_chain)
        /\ r.params.token # << >> /\ r.params.amount > 0}

\* Outcome vectors of the ten adapter futures offered to the handler: the
\* first MaxVaried adapters settle in every way, the others all fail, by
\* error or by deadline.
HandlerOutcomes ==
    {[i \in AdapterIdx |-> IF i <= MaxVaried THEN v[i] ELSE c] :
        v \in [1..MaxVaried -> Settled], c \in {"error", "elapsed"}}

\* What the audit table holds for the bridges of the model: no audit rows.
AuditFlags == {FALSE}

\* Outcomes of the metadata lookup for the given quotes: an error, the 3 s
\* deadline, or one row per bridge.
MetaResults(quotes) ==
    {[kind |-> "error", rows |-> << >>], [kind |-> "elapsed", rows |-> << >>]}
    \cup {[kind |-> "rows",
           rows |-> [k \in DOMAIN quotes |->
                       [bridge |-> quotes[k].bridge, has_audit |-> a,
                        has_exploit |-> FALSE]]] : a \in AuditFlags}

\* Time steps: long enough for the fresh entry and the rate-limit window to
\* run out while a stale entry just written survives; and the whole life of
\* a stale entry.
Durations ==
    {MAX_STALE_CACHE_AGE_SECONDS - RATE_LIMIT_WINDOW_SECONDS,
     MAX_STALE_CACHE_AGE_SECONDS}

\* ------------------------------------------------------------------------
\* Specifications
\* ------------------------------------------------------------------------

NextAgg ==
    \/ \E t \in 1..MaxTimeout : AggCall(t) /\ UNCHANGED agg_order
    \/ \E i \in AdapterIdx, res \in {"quote", "error"} :
          AdapterSettle(i, res) /\ UNCHANGED agg_order
    \/ DeadlineElapsed /\ UNCHANGED agg_order
    \/ AggTick /\ UNCHANGED agg_order
    \/ AggReturn /\ UNCHANGED agg_order

SpecAgg == Init /\ [][NextAgg]_vars

\* SpecAggOrder: get_all_bridge_quotes with the order in which the adapter
\* futures complete recorded.  The first MaxRacers adapters complete in any
\* order, or hang; the others hang until the deadline falls.
NextAggOrder ==
    \/ \E t \in 1..MaxTimeout : AggCall(t) /\ agg_order' = << >>
    \/ \E i \in 1..MaxRacers, res \in {"quote", "error"} :
          AdapterSettle(i, res) /\ agg_order' = Append(agg_order, i)
    \/ DeadlineElapsed /\ UNCHANGED agg_order
    \/ AggTick /\ UNCHANGED agg_order
    \/ AggReturn /\ UNCHANGED agg_order

SpecAggOrder == Init /\ [][NextAggOrder]_vars

CounterValue(k) == IF HasKey(store, k) THEN store[k].val ELSE 0

\* A request is accepted while its client's counter is below cap (the
\* counter starts again when its key expires).
ReceiveBelow(p, q, cap) ==
    /\ CounterValue(rate_limit_key(q)) < cap
    /\ Receive(p, q)

\* Spec: one handler task serves one request after the other.
Next ==
    \E p \in {1} :
        \/ \E q \in Requests : ReceiveBelow(p, q, MaxRequests)
        \/ \E o \in StoreOutcome : Increment(p, o) /\ UNCHANGED << window, verdict >>
        \/ \E o \in StoreOutcome : Expire(p, o)
        \/ \E o \in {"ok", "err"} : FreshProbe(p, o)
        \/ \E outcome \in HandlerOutcomes : Aggregate(p, outcome)
        \/ \E o \in {"ok", "err"} : StaleProbe(p, o)
        \/ \E meta \in MetaResults(PartitionQuotes(bridge_results[p])) : Score(p, meta)
        \/ \E o \in StoreOutcome : WriteFresh(p, o)
        \/ \E o \in StoreOutcome : WriteStale(p, o)
        \/ Stop(p)
        \/ \E d \in Durations : Advance(d) /\ UNCHANGED window

Spec == Init /\ [][Next]_vars

\* SpecLimit: MaxHandlers concurrent handler tasks serve same-chain requests
\* of one client until its counter has reached MaxCount.
\* The history of the window: how many requests of the window were not
\* rate-limited (admitted), whether every increment reached the store and
\* was answered (clean), and how long the counter key has existed (age, up
\* to the window length).  A request is judged when its increment succeeds
\* in a clean window that has not yet run out.
IncrementInWindow(p, o) ==
    LET r == increment(store, rate_limit_key(req[p][1]), o)
        judged == o = "ok" /\ window.clean /\ window.age < RATE_LIMIT_WINDOW_SECONDS
    IN  /\ Increment(p, o)
        /\ verdict' = [verdict EXCEPT ![p] =
                         [judged |-> judged,
                          over   |-> judged /\ window.admitted >= RATE_LIMIT_PER_MINUTE]]
        /\ window' = IF o = "ok"
                     THEN [window EXCEPT !.admitted =
                              IF window.clean /\ reply'[p].status # 429
                              THEN @ + 1 ELSE @]
                     ELSE [window EXCEPT !.clean = FALSE, !.admitted = 0]

AdvanceWindow(d) ==
    /\ Advance(d)
    /\ window' =
          IF \A k \in DOMAIN store' : k[1] # "rate_limit:quotes:"
          THEN NewWindow
          ELSE [window EXCEPT !.age =
                   IF @ + d > RATE_LIMIT_WINDOW_SECONDS
                   THEN RATE_LIMIT_WINDOW_SECONDS ELSE @ + d]

NextLimit ==
    \/ \E p \in Handlers :
        \/ \E q \in SameChainRequests : ReceiveBelow(p, q, MaxCount)
        \/ \E o \in StoreOutcome : IncrementInWindow(p, o)
        \/ \E o \in StoreOutcome : Expire(p, o)
        \/ Stop(p)
    \/ AdvanceWindow(RATE_LIMIT_WINDOW_SECONDS)

SpecLimit == Init /\ [][NextLimit]_vars

\* SpecPair: two identical requests are served one after the other, each
\* by a handler of its own (so that the response to the first stays visible
\* while the second is served), a few seconds apart.  The rate-limit commands
\* succeed; the quote-cache commands succeed, fail or lose their reply.
PairRequests == {r \in Requests : r.params = BaseParams}

\* The handler of the first request and the handler of the second.
First == CHOOSE p \in Handlers : \A o \in Handlers : p <= o

Second == First + 1

Pair == {First, Second}

ReceiveInTurn(p, q) ==
    /\ pc[p] = "idle"
    /\ \A o \in Pair : o < p => pc[o] = "done"
    /\ Receive(p, q)

\* Seconds pass while a fresh entry is alive: all but the last second of
\* its life, or its whole life.
FreshSpans == {QUOTE_CACHE_TTL_SECONDS - 1, QUOTE_CACHE_TTL_SECONDS}

\* Time passes between two requests, or while a handler waits for the
\* reply to its stale write.  window.age counts the seconds between the
\* response to the first request and the arrival of the second.
AdvanceWhileFresh(d) ==
    /\ \A p \in Pair : pc[p] \in {"idle", "done", "write_stale"}
    /\ \E r \in PairRequests : HasKey(store, generate_cache_key(r.params))
    /\ Advance(d)
    /\ window' = IF pc[First] = "done" /\ pc[Second] = "idle"
                 THEN [window EXCEPT !.age = @ + d]
                 ELSE window

NextPair ==
    \/ \E p \in Pair :
        \/ \E q \in PairRequests : ReceiveInTurn(p, q)
        \/ Increment(p, "ok") /\ UNCHANGED << window, verdict >>
        \/ Expire(p, "ok")
        \/ \E o \in {"ok", "err"} : FreshProbe(p, o)
        \/ \E outcome \in HandlerOutcomes : Aggregate(p, outcome)
        \/ \E o \in {"ok", "err"} : StaleProbe(p, o)
        \/ \E meta \in MetaResults(PartitionQuotes(bridge_results[p])) : Score(p, meta)
        \/ \E o \in StoreOutcome : WriteFresh(p, o)
        \/ \E o \in StoreOutcome : WriteStale(p, o)
    \/ \E d \in FreshSpans : AdvanceWhileFresh(d)

SpecPair == Init /\ [][NextPair]_vars

\* SpecConcurrent: two identical requests are served at the same time, each
\* by a handler of its own, their awaits interleaved in every way.  The
\* store executes and answers every command, and no entry runs out while
\* the two are served.
ReceiveOnce(p, q) ==
    /\ pc[p] = "idle"
    /\ Receive(p, q)

NextConcurrent ==
    \E p \in Pair :
        \/ \E q \in PairRequests : ReceiveOnce(p, q)
        \/ Increment(p, "ok") /\ UNCHANGED << window, verdict >>
        \/ Expire(p, "ok")
        \/ FreshProbe(p, "ok")
        \/ \E outcome \in HandlerOutcomes : Aggregate(p, outcome)
        \/ StaleProbe(p, "ok")
        \/ \E meta \in MetaResults(PartitionQuotes(bridge_results[p])) : Score(p, meta)
        \/ WriteFresh(p, "ok")
        \/ WriteStale(p, "ok")

SpecConcurrent == Init /\ [][NextConcurrent]_vars

\* SpecFrame: one handler task serves one request after the other, as in
\* Spec, until the client's counter passes the limit; only the first
\* adapter may return a quote.
FrameOutcomes ==
    {outcome \in HandlerOutcomes : \A i \in AdapterIdx : i > 1 => outcome[i] = "error"}

NextFrame ==
    \E p \in {1} :
        \/ \E q \in Requests : ReceiveBelow(p, q, MaxCount)
        \/ \E o \in StoreOutcome : Increment(p, o) /\ UNCHANGED << window, verdict >>
        \/ \E o \in StoreOutcome : Expire(p, o)
        \/ \E o \in {"ok", "err"} : FreshProbe(p, o)
        \/ \E outcome \in FrameOutcomes : Aggregate(p, outcome)
        \/ \E o \in {"ok", "err"} : StaleProbe(p, o)
        \/ \E meta \in MetaResults(PartitionQuotes(bridge_results[p])) : Score(p, meta)
        \/ \E o \in StoreOutcome : WriteFresh(p, o)
        \/ \E o \in StoreOutcome : WriteStale(p, o)
        \/ \E d \in Durations : Advance(d) /\ UNCHANGED window

SpecFrame == Init /\ [][NextFrame]_vars

\* SpecAmount: the amount check of the handler and amount_to_smallest_unit
\* for one amount and one token.
\*
\* An amount is NaN, an infinity, or the fraction sign * m / 2^k.  f64
\* holds such a fraction exactly, and for m < 2361 its product with 10^6 or
\* 10^18 as well (10^18 = 2^18 * 5^18 and m * 5^18 < 2^53), so that no
\* rounding takes place before the cast.  The 64-bit integer the cast
\* yields is kept as its decimal digits, most significant first.
Mantissas == {0, 1, 3, 19, 1000}
Shifts == {0, 1, 20}

Amounts ==
    [kind : {"fin"}, sign : {1, -1}, m : Mantissas, k : Shifts]
    \cup [kind : {"nan"}, sign : {1}, m : {0}, k : {0}]
    \cup [kind : {"inf"}, sign : {1, -1}, m : {0}, k : {0}]

Usdt == << "U", "S", "D", "T" >>
Wbtc == << "W", "B", "T", "C" >>
Dai == << "D", "A", "I" >>
OtherToken == << "X" >>
AmountTokens == {Usdc, Usdt, EthUpper, Wbtc, Dai, OtherToken}

\* Decimal digits of a natural number.
RECURSIVE Digits(_)
Digits(n) == IF n < 10 THEN << n >> ELSE Append(Digits(n \div 10), n % 10)

Zeros(d) == [i \in 1..d |-> 0]

\* The digits without leading zeros (one digit at least).
RECURSIVE Canonical(_)
Canonical(ds) == IF Len(ds) > 1 /\ ds[1] = 0 THEN Canonical(Tail(ds)) ELSE ds

\* The number divided by n, rounded down: long division from digit i on.
RECURSIVE QuotientFrom(_, _, _, _)
QuotientFrom(ds, i, carry, n) ==
    IF i > Len(ds) THEN << >>
    ELSE << (carry * 10 + ds[i]) \div n >>
         \o QuotientFrom(ds, i + 1, (carry * 10 + ds[i]) % n, n)

Quotient(ds, n) == Canonical(QuotientFrom(ds, 1, 0, n))

\* u64::MAX = 18446744073709551615
U64MaxDigits == << 1, 8, 4, 4, 6, 7, 4, 4, 0, 7, 3, 7, 0, 9, 5, 5, 1, 6, 1, 5 >>

\* Numbers without leading zeros: the longer is the larger, and of two of
\* one length the one with the larger digit where they first differ.
DigitsGreater(a, b) ==
    \/ Len(a) > Len(b)
    \/ /\ Len(a) = Len(b)
       /\ \E i \in DOMAIN a :
            /\ a[i] > b[i]
            /\ \A j \in 1..(i - 1) : a[j] = b[j]

\* `(amount * 10^decimals) as u64`: the fraction is dropped, NaN and what
\* lies below zero become 0, what lies above u64::MAX becomes u64::MAX.
ScaledAsU64(amount, decimals) ==
    IF amount.kind = "nan" THEN << 0 >>
    ELSE IF amount.sign < 0 THEN << 0 >>
    ELSE IF amount.kind = "inf" THEN U64MaxDigits
    ELSE LET whole == Quotient(Canonical(Digits(amount.m) \o Zeros(decimals)),
                               2 ^ amount.k)
         IN  IF DigitsGreater(whole, U64MaxDigits) THEN U64MaxDigits ELSE whole

DigitChars == << "0", "1", "2", "3", "4", "5", "6", "7", "8", "9" >>

\* u64::to_string
u64_to_string(ds) == [i \in DOMAIN ds |-> DigitChars[ds[i] + 1]]

\* fn amount_to_smallest_unit(amount: f64, token: &str) -> String
amount_to_smallest_unit(amount, token) ==
    IF to_uppercase(token) \in {to_uppercase(Usdc), Usdt}
    THEN u64_to_string(ScaledAsU64(amount, 6))
    ELSE IF to_uppercase(token) \in {EthUpper, << "W", "E", "T", "H" >>, Dai}
    THEN u64_to_string(ScaledAsU64(amount, 18))
    ELSE u64_to_string(ScaledAsU64(amount, 18))

\* `params.amount <= 0.0`: false of NaN.
AmountNotPositive(amount) ==
    /\ amount.kind # "nan"
    /\ amount.sign < 0 \/ (amount.kind = "fin" /\ amount.m = 0)

AmountOthersUnchanged ==
    UNCHANGED << aggVars, agg_order, handlerVars, scoreVars, callVars, hopVars, waitVars >>

\* `if params.amount <= 0.0 { return 400 }`
CheckAmount ==
    /\ fn_pc = "ready"
    /\ fn_call.fn = "amount_to_smallest_unit"
    /\ IF AmountNotPositive(fn_call.amount)
       THEN /\ fn_pc' = "rejected"
            /\ fn_result' = Some([tag |-> "Err", status |-> 400])
       ELSE /\ fn_pc' = "accepted"
            /\ UNCHANGED fn_result
    /\ UNCHANGED fn_call
    /\ AmountOthersUnchanged

\* `let amount_smallest_unit = amount_to_smallest_unit(params.amount,
\* &params.token)`; the string goes into the BridgeQuoteRequest.
ConvertAmount ==
    /\ fn_pc = "accepted"
    /\ fn_result' = Some([tag |-> "Ok",
                          amount |-> amount_to_smallest_unit(fn_call.amount,
                                                             fn_call.token)])
    /\ fn_pc' = "done"
    /\ UNCHANGED fn_call
    /\ AmountOthersUnchanged

InitAmount ==
    /\ AggInit /\ HandlerInit /\ agg_order = << >>
    /\ ScoreIdle /\ CallIdle /\ HopIdle /\ WaitIdle
    /\ fn_pc = "ready"
    /\ fn_call \in [fn : {"amount_to_smallest_unit"}, amount : Amounts,
                    token : AmountTokens]
    /\ fn_result = << >>

NextAmount == CheckAmount \/ ConvertAmount

SpecAmount == InitAmount /\ [][NextAmount]_vars

\* SpecMeta: one call of SecurityRepository::get_batch_security_metadata
\* against tables that hold, for each of three bridges, no, one or two
\* rows.  Each of the two queries returns its groups or fails.
MetaBridges == {Registry[1], Registry[2], Registry[3]}

\* Rows of audit_reports and exploit_history per bridge.
MetaTables == [MetaBridges -> [audit_count : 0..1, exploit_count : 0..2]]

NameLists == UNION {[1..n -> MetaBridges] : n \in 0..MaxNames}

\* `WHERE bridge IN (..) GROUP BY bridge` collected into a HashMap: one
\* group for each requested bridge that has rows (a bridge without rows
\* makes no group), keyed by bridge whatever order the rows came in.
GroupCounts(bridge_names, counts) ==
    [b \in {bridge_names[k] : k \in {i \in DOMAIN bridge_names :
                                        counts[bridge_names[i]] > 0}} |-> counts[b]]

\* `map.get(bridge_name).unwrap_or(&(0, ..))`
CountOr0(map, bridge_name) ==
    IF bridge_name \in DOMAIN map THEN map[bridge_name] ELSE 0

\* Mutant: one record for each group the audit query returned.
BuildMetadataOfGroups(bridge_names, audit_map, exploit_map) ==
    LET found == SelectSeq(bridge_names, LAMBDA b : b \in DOMAIN audit_map)
    IN  [k \in DOMAIN found |->
            [bridge        |-> found[k],
             has_audit     |-> CountOr0(audit_map, found[k]) > 0,
             has_exploit   |-> CountOr0(exploit_map, found[k]) > 0,
             exploit_count |-> CountOr0(exploit_map, found[k])]]

\* `bridge_names.iter().map(|bridge_name| SecurityMetadata {..}).collect()`
\* (the counts of the model are far below the u32 range of exploit_count).
BuildMetadata(bridge_names, audit_map, exploit_map) ==
    [k \in DOMAIN bridge_names |->
        [bridge        |-> bridge_names[k],
         has_audit     |-> CountOr0(audit_map, bridge_names[k]) > 0,
         has_exploit   |-> CountOr0(exploit_map, bridge_names[k]) > 0,
         exploit_count |-> CountOr0(exploit_map, bridge_names[k])]]

MetaOthersUnchanged ==
    UNCHANGED << aggVars, agg_order, handlerVars, scoreVars, callVars, hopVars, waitVars >>

\* `if bridge_names.is_empty() { return Ok(Vec::with_capacity(0)) }`
MetaEnter ==
    /\ fn_pc = "ready"
    /\ fn_call.fn = "get_batch_security_metadata"
    /\ IF fn_call.bridge_names = << >>
       THEN /\ fn_pc' = "done"
            /\ fn_result' = Some([tag |-> "Ok", value |-> << >>])
       ELSE /\ fn_pc' = "audit_query"
            /\ UNCHANGED fn_result
    /\ UNCHANGED fn_call
    /\ MetaOthersUnchanged

\* `audit_query_builder.fetch_all(pool).await?`
AuditQuery(o) ==
    /\ fn_pc = "audit_query"
    /\ IF o = "ok"
       THEN /\ fn_call' = [fn_call EXCEPT !.audit_map =
                             GroupCounts(fn_call.bridge_names,
                                 [b \in MetaBridges |-> fn_call.tables[b].audit_count])]
            /\ fn_pc' = "exploit_query"
            /\ UNCHANGED fn_result
       ELSE /\ fn_pc' = "done"
            /\ fn_result' = Some([tag |-> "Err", value |-> << >>])
            /\ UNCHANGED fn_call
    /\ MetaOthersUnchanged

\* `exploit_query_builder.fetch_all(pool).await?`
ExploitQuery(o) ==
    /\ fn_pc = "exploit_query"
    /\ IF o = "ok"
       THEN /\ fn_call' = [fn_call EXCEPT !.exploit_map =
                             GroupCounts(fn_call.bridge_names,
                                 [b \in MetaBridges |-> fn_call.tables[b].exploit_count])]
            /\ fn_pc' = "build"
            /\ UNCHANGED fn_result
       ELSE /\ fn_pc' = "done"
            /\ fn_result' = Some([tag |-> "Err", value |-> << >>])
            /\ UNCHANGED fn_call
    /\ MetaOthersUnchanged

\* The records are built and returned.
MetaReturn ==
    /\ fn_pc = "build"
    /\ fn_result' = Some([tag |-> "Ok",
                          value |-> BuildMetadata(fn_call.bridge_names,
                                                  fn_call.audit_map,
                                                  fn_call.exploit_map)])
    /\ fn_pc' = "done"
    /\ UNCHANGED fn_call
    /\ MetaOthersUnchanged

InitMeta ==
    /\ AggInit /\ HandlerInit /\ agg_order = << >>
    /\ ScoreIdle /\ CallIdle /\ HopIdle /\ WaitIdle
    /\ fn_pc = "ready"
    /\ fn_call \in [fn : {"get_batch_security_metadata"}, bridge_names : NameLists,
                    tables : MetaTables, audit_map : {<< >>}, exploit_map : {<< >>}]
    /\ fn_result = << >>

NextMeta ==
    \/ MetaEnter
    \/ \E o \in {"ok", "err"} : AuditQuery(o)
    \/ \E o \in {"ok", "err"} : ExploitQuery(o)
    \/ MetaReturn

SpecMeta == InitMeta /\ [][NextMeta]_vars

\* SpecRetry: retry_request around a closure that returns any result.
OpResults ==
    {Ok("quote", "none")} \cup {Err(e, "none") : e \in BridgeErrors}

RetryInit ==
    /\ ad_name = ""
    /\ ad_mapping = ""
    /\ ad_sent = 0
    /\ rt_retries \in 0..MaxRetries
    /\ rt_pc = "attempt"
    /\ rt_attempt = 0
    /\ rt_ran = << >>
    /\ rt_slept = << >>
    /\ rt_result = << >>

InitRetry ==
    AggInit /\ HandlerInit /\ agg_order = << >> /\ ScoreIdle /\ RetryInit /\ FnIdle /\ HopIdle /\ WaitIdle

NextRetry ==
    \/ \E result \in OpResults : Operation(result)
    \/ Backoff

SpecRetry == InitRetry /\ [][NextRetry]_vars

\* SpecAdapter: one call of an adapter's get_quote, for a request its
\* mapping accepts or rejects.
Mappings(name) ==
    IF name \in {"Hop", "Axelar"} THEN {"ok", "UnsupportedRoute"}
    ELSE {"ok", "UnsupportedRoute", "UnsupportedAsset"}

AdapterInit ==
    /\ ad_name \in {Registry[i] : i \in AdapterIdx}
    /\ ad_mapping \in Mappings(ad_name)
    /\ ad_sent = 0
    /\ rt_retries \in 0..MaxRetries
    /\ rt_pc = "start"
    /\ rt_attempt = 0
    /\ rt_ran = << >>
    /\ rt_slept = << >>
    /\ rt_result = << >>

InitAdapter ==
    AggInit /\ HandlerInit /\ agg_order = << >> /\ ScoreIdle /\ AdapterInit /\ FnIdle /\ HopIdle /\ WaitIdle

NextAdapter ==
    \/ \E cached \in BOOLEAN : GetQuote(cached)
    \/ \E provider \in ProviderOutcomes : Attempt(provider)
    \/ Backoff

SpecAdapter == InitAdapter /\ [][NextAdapter]_vars

\* SpecDeadline: one call of get_all_bridge_quotes in which the adapter
\* ad_name is followed step by step inside its timeout wrapper; the other
\* adapters hang until the deadline falls.

\* The position in the join of the adapter that is followed.
Followed == CHOOSE i \in AdapterIdx : Registry[i] = ad_name

\* Mutant: the adapter runs as a task of its own, which goes on when its
\* wrapper has resolved to Err(Elapsed).
PolledDetached(i) == agg_pc = "running" /\ adapter[i] \in {"pending", "elapsed"}

\* An adapter's future is polled by the join, through its timeout wrapper,
\* until the wrapper has resolved; the wrapper then drops it.
Polled(i) == agg_pc = "running" /\ adapter[i] = "pending"

\* Mutant: the steps are at 60 and 300 inclusive.
quote_ttl_inclusive(est_time) ==
    IF est_time <= 60 THEN 600 ELSE IF est_time <= 300 THEN 300 ELSE 120

\* get_cached_quote: the TTL of the adapter's cache entry.
quote_ttl(est_time) ==
    IF est_time < 60 THEN 600 ELSE IF est_time < 300 THEN 300 ELSE 120

\* est_time of a fast, a medium and a slow bridge.
EstTimes == {30, 120, 900}

\* format!("<adapter>:{}:{}:{}:{}", ..) for the request at hand.
AdapterCacheKey(name) == << name, ":" >>

\* get_cached_quote after a fresh quote: set_cache, whose failure is only
\* logged (without a cache client nothing is written, as after "err");
\* then Ok(quote), and the wrapper resolves.
AdapterCacheWrite(est_time, o) ==
    /\ Polled(Followed)
    /\ rt_pc = "returned"
    /\ rt_result # None
    /\ rt_result[1].tag = "Ok"
    /\ rt_result[1].what # "cached"
    /\ store' = set_cache(store, AdapterCacheKey(ad_name), rt_result[1].what,
                          quote_ttl(est_time), o)
    /\ adapter' = [adapter EXCEPT ![Followed] = "quote"]
    /\ UNCHANGED << agg_pc, agg_timeout, agg_clock, agg_results, agg_order >>
    /\ UNCHANGED << pc, req, bridge_results, response, reply, hist, window, verdict >>
    /\ UNCHANGED pureVars

\* get_quote returns the cached quote, or the error of retry_request or of
\* the route check: the wrapper resolves.
AdapterReturn ==
    /\ Polled(Followed)
    /\ rt_pc = "returned"
    /\ rt_result # None
    /\ \/ rt_result[1].tag = "Err" /\ AdapterSettle(Followed, "error")
       \/ rt_result[1] = Ok("cached", "none") /\ AdapterSettle(Followed, "quote")
    /\ UNCHANGED agg_order

NextDeadline ==
    \/ \E t \in 1..MaxTimeout : agg_pc = "idle" /\ AggCall(t) /\ UNCHANGED agg_order
    \/ Polled(Followed) /\ \E cached \in BOOLEAN : GetQuote(cached)
    \/ Polled(Followed) /\ \E provider \in ProviderOutcomes : Attempt(provider)
    \/ Polled(Followed) /\ Backoff
    \/ \E est_time \in EstTimes, o \in StoreOutcome : AdapterCacheWrite(est_time, o)
    \/ AdapterReturn
    \/ DeadlineElapsed /\ UNCHANGED agg_order
    \/ AggTick /\ UNCHANGED agg_order
    \/ AggReturn /\ UNCHANGED agg_order

SpecDeadline == InitAdapter /\ [][NextDeadline]_vars

\* SpecCached: calls of one adapter's get_quote, one after the other,
\* against the adapter's entry in the store: the probe, the fetch with its
\* retries, and the write.  fn_call holds what the call at hand has seen:
\*   entry   the adapter's entry when the call was made (an Option)
\*   probe   what the probe did: "none" (not reached), "hit", "miss",
\*           "err" (the read failed) or "undecodable"
\*   write   the outcome of set_cache, "none" when it was not called

\* est_time of quotes, on both sides of the TTL steps.
QuoteEstTimes == {0, 59, 60, 299, 300, 900}

\* A BridgeQuote as the cache holds it: parsed from a provider response
\* ("quote") or made by create_*_estimate ("estimate"); "garbage" is a
\* value serde_json cannot read as a BridgeQuote.
CachedQuote(kind, est_time) == [kind |-> kind, est_time |-> est_time]

Garbage == CachedQuote("garbage", 0)

\* serde_json::from_str::<BridgeQuote>(&value) succeeds.
Decodable(v) == v # Garbage

\* What the adapter's entry holds when the first call is made: nothing, a
\* quote of an earlier run, or a value written by another program.
EntryChoices(name) ==
    {<< >>,
     [k \in {AdapterCacheKey(name)} |-> [val |-> CachedQuote("quote", 120), ttl |-> 300]],
     [k \in {AdapterCacheKey(name)} |-> [val |-> Garbage, ttl |-> 300]]}

CallRecord(st, name) ==
    [entry |-> GET(st, AdapterCacheKey(name)), probe |-> "none", write |-> "none"]

\* hop::get_quote before get_cached_quote: the route refresh of the
\* request's own HopConfig and the route check.
\*   "blocked"       the route list was read from the store; the future
\*                   waits for the lock it holds
\*   "fetched"       the route list was requested from the provider
\*   "fetch_failed"  that request failed: the table stays empty
HopRefreshOutcomes == {"blocked", "fetched", "fetch_failed"}

HopRefresh(o) ==
    /\ fn_pc = "ready"
    /\ rt_pc = "refresh"
    /\ ad_sent' = IF o = "blocked" THEN ad_sent ELSE ad_sent + 1
    /\ IF o = "blocked"
       THEN /\ rt_pc' = "blocked"
            /\ UNCHANGED << fn_pc, fn_result >>
       ELSE IF o = "fetched" /\ ad_mapping = "ok"
       THEN /\ rt_pc' = "start"
            /\ UNCHANGED << fn_pc, fn_result >>
       ELSE /\ rt_pc' = "returned"
            /\ fn_pc' = "done"
            /\ fn_result' = Some(Err("UnsupportedRoute", "none"))
    /\ UNCHANGED << fn_call, ad_name, ad_mapping, rt_retries, rt_attempt, rt_ran,
                    rt_slept, rt_result >>
    /\ UNCHANGED << aggVars, agg_order, handlerVars, scoreVars, hopVars, waitVars >>

\* get_cached_quote: `if let Ok(Some(cached_quote)) = get_cache(key).await`
\* returns the cached quote; a miss, a failed read and a value that does
\* not deserialize all go on to the fetcher.
CacheProbe(o) ==
    LET got == get_cache(store, AdapterCacheKey(ad_name), o)
        probe == IF ~got.ok THEN "err"
                 ELSE IF got.value = None THEN "miss"
                 ELSE IF Decodable(got.value[1]) THEN "hit" ELSE "undecodable"
    IN  /\ fn_pc = "ready"
        /\ rt_pc = "start"
        /\ fn_call' = [fn_call EXCEPT !.probe = probe]
        /\ IF probe = "hit"
           THEN /\ fn_pc' = "done"
                /\ fn_result' = Some([tag |-> "Ok", quote |-> got.value[1]])
                /\ rt_pc' = "returned"
           ELSE /\ rt_pc' = "attempt"
                /\ UNCHANGED << fn_pc, fn_result >>
        /\ UNCHANGED << ad_name, ad_mapping, ad_sent, rt_retries, rt_attempt, rt_ran,
                        rt_slept, rt_result >>
        /\ UNCHANGED << aggVars, agg_order, handlerVars, scoreVars, hopVars, waitVars >>

\* get_cached_quote: `let quote = fetcher().await?;` with an Err.
FetchFailed ==
    /\ fn_pc = "ready"
    /\ rt_pc = "returned"
    /\ rt_result # None
    /\ rt_result[1].tag = "Err"
    /\ fn_pc' = "done"
    /\ fn_result' = Some(rt_result[1])
    /\ UNCHANGED << fn_call, callVars >>
    /\ UNCHANGED << aggVars, agg_order, handlerVars, scoreVars, hopVars, waitVars >>

\* get_cached_quote after fetcher() returned Ok(quote), parsed or
\* estimated: set_cache(cache_key, &quote, ttl), a failure being logged
\* only; then Ok(quote).
CacheQuote(est_time, o) ==
    LET quote == CachedQuote(rt_result[1].what, est_time)
    IN  /\ fn_pc = "ready"
        /\ rt_pc = "returned"
        /\ rt_result # None
        /\ rt_result[1].tag = "Ok"
        /\ store' = set_cache(store, AdapterCacheKey(ad_name), quote, quote_ttl(est_time), o)
        /\ fn_call' = [fn_call EXCEPT !.write = o]
        /\ fn_pc' = "done"
        /\ fn_result' = Some([tag |-> "Ok", quote |-> quote])
        /\ UNCHANGED << pc, req, bridge_results, response, reply, hist, window, verdict >>
        /\ UNCHANGED << aggVars, agg_order, scoreVars, callVars, hopVars, waitVars >>

\* Time between two calls of the adapter.
CallGaps == {120, 600}

\* d seconds later the adapter is called again for the same request.
CallAgain(d) ==
    /\ fn_pc = "done"
    /\ store' = Elapse(store, d)
    /\ fn_pc' = "ready"
    /\ fn_call' = CallRecord(store', ad_name)
    /\ fn_result' = << >>
    /\ ad_sent' = 0
    /\ rt_pc' = IF ad_name = "Hop" THEN "refresh" ELSE "start"
    /\ rt_attempt' = 0
    /\ rt_ran' = << >>
    /\ rt_slept' = << >>
    /\ rt_result' = << >>
    /\ UNCHANGED << ad_name, ad_mapping, rt_retries >>
    /\ UNCHANGED << pc, req, bridge_results, response, reply, hist, window, verdict >>
    /\ UNCHANGED << aggVars, agg_order, scoreVars, hopVars, waitVars >>

InitCached ==
    /\ AggInit /\ agg_order = << >> /\ ScoreIdle /\ HopIdle /\ WaitIdle
    /\ pc = [p \in Handlers |-> "idle"]
    /\ req = [p \in Handlers |-> << >>]
    /\ bridge_results = [p \in Handlers |-> << >>]
    /\ response = [p \in Handlers |-> NoResponse]
    /\ reply = [p \in Handlers |-> NoReply]
    /\ hist = [p \in Handlers |-> NoHist]
    /\ window = NewWindow
    /\ verdict = [p \in Handlers |-> NoVerdict]
    /\ ad_name \in {Registry[i] : i \in AdapterIdx}
    /\ ad_mapping \in Mappings(ad_name)
    /\ ad_sent = 0
    /\ rt_retries \in 0..MaxRetries
    /\ rt_pc = IF ad_name = "Hop" THEN "refresh" ELSE "start"
    /\ rt_attempt = 0
    /\ rt_ran = << >>
    /\ rt_slept = << >>
    /\ rt_result = << >>
    /\ store \in EntryChoices(ad_name)
    /\ fn_pc = "ready"
    /\ fn_call = CallRecord(store, ad_name)
    /\ fn_result = << >>

NextCached ==
    \/ \E o \in HopRefreshOutcomes : HopRefresh(o)
    \/ \E o \in StoreOutcome : CacheProbe(o)
    \/ fn_pc = "ready" /\ \E provider \in ProviderOutcomes : Attempt(provider)
    \/ fn_pc = "ready" /\ Backoff
    \/ FetchFailed
    \/ \E est_time \in QuoteEstTimes, o \in StoreOutcome : CacheQuote(est_time, o)
    \/ \E d \in CallGaps : CallAgain(d)

SpecCached == InitCached /\ [][NextCached]_vars

\* SpecScore: one call of the scorer, or one call of
\* process_quotes_with_security, with arguments drawn from the sets below.
Fees == {NEG_INFINITY, Fin(-1), Fin(0), Fin(5), Fin(10), Fin(20), INFINITY, NaN}

Times == {U64(0), U64(900), U64(1800), U64(3600), U64_MAX}

\* The default configuration; weights that add up to 3; negative weights;
\* an infinite fee weight.
ScoringConfigs ==
    {DefaultScoringConfig,
     [DefaultScoringConfig EXCEPT !.weights =
         [fee_weight |-> Fin(SCALE), time_weight |-> Fin(SCALE),
          security_weight |-> Fin(SCALE)]],
     [DefaultScoringConfig EXCEPT !.weights =
         [fee_weight |-> Fin(-SCALE), time_weight |-> Fin(-SCALE),
          security_weight |-> Fin(-SCALE)]],
     [DefaultScoringConfig EXCEPT !.weights.fee_weight = INFINITY]}

ScorerCalls ==
    {[fn |-> "calculate_score_with_config",
      fee |-> f, est_time |-> t, has_audit |-> a, has_exploit |-> e, config |-> c,
      quotes |-> << >>, lookup |-> "ok", tables |-> << >>] :
        f \in Fees, t \in Times, a \in BOOLEAN, e \in BOOLEAN, c \in ScoringConfigs}

\* Quotes of some of the first MaxQuotes adapters, in registry order, each
\* with one of two fee / time pairs.
QuoteSamples ==
    {[fee |-> Fin(5), est_time |-> U64(1800)], [fee |-> Fin(0), est_time |-> U64(900)]}

QuoteLists ==
    UNION {
        {[k \in DOMAIN idx |->
            [bridge |-> Registry[idx[k]], fee |-> smp[idx[k]].fee,
             est_time |-> smp[idx[k]].est_time]] :
          smp \in [1..MaxQuotes -> QuoteSamples]} :
        idx \in {SelectSeq([i \in 1..MaxQuotes |-> i], LAMBDA i : i \in sub) :
                   sub \in (SUBSET (1..MaxQuotes)) \ {{}}}}

\* What audit_reports and exploit_history hold for one bridge: the number
\* of rows in each, none or one.
TableCounts == [audit_count : 0..1, exploit_count : 0..1]

\* get_batch_security_metadata when both queries succeed: one record per
\* requested name, a bridge without rows counting zero audits and exploits.
get_batch_security_metadata(bridge_names, tables) ==
    [k \in DOMAIN bridge_names |->
        [bridge      |-> bridge_names[k],
         has_audit   |-> tables[k].audit_count > 0,
         has_exploit |-> tables[k].exploit_count > 0]]

\* The lookup under its 3 s deadline: Ok(Ok(rows)), Ok(Err) or Err(elapsed).
SecurityLookup(quotes, lookup, tables) ==
    IF lookup = "ok"
    THEN [kind |-> "rows",
          rows |-> get_batch_security_metadata(
                       [k \in DOMAIN quotes |-> quotes[k].bridge], tables)]
    ELSE [kind |-> lookup, rows |-> << >>]

ProcessCalls ==
    UNION {
        {[fn |-> "process_quotes_with_security",
          fee |-> Fin(0), est_time |-> U64(0), has_audit |-> FALSE,
          has_exploit |-> FALSE, config |-> DefaultScoringConfig,
          quotes |-> qs, lookup |-> l, tables |-> t] :
            l \in {"ok", "error", "elapsed"}, t \in [DOMAIN qs -> TableCounts]} :
        qs \in QuoteLists}

ScoreInit ==
    /\ sc_pc = "ready"
    /\ sc_call \in ScorerCalls \cup ProcessCalls
    /\ sc_result = << >>

InitScore ==
    AggInit /\ HandlerInit /\ agg_order = << >> /\ ScoreInit /\ CallIdle /\ FnIdle /\ HopIdle /\ WaitIdle

CalculateScore ==
    /\ sc_pc = "ready"
    /\ sc_call.fn = "calculate_score_with_config"
    /\ sc_result' = Some([score  |-> calculate_score_with_config(
                                        sc_call.fee, sc_call.est_time,
                                        sc_call.has_audit, sc_call.has_exploit,
                                        sc_call.config),
                          routes |-> << >>])
    /\ sc_pc' = "done"
    /\ UNCHANGED sc_call
    /\ UNCHANGED << aggVars, agg_order, handlerVars, callVars, fnVars, hopVars, waitVars >>

ProcessQuotes ==
    /\ sc_pc = "ready"
    /\ sc_call.fn = "process_quotes_with_security"
    /\ sc_result' = Some([score  |-> Fin(0),
                          routes |-> process_quotes_with_security(
                                        sc_call.quotes,
                                        SecurityLookup(sc_call.quotes, sc_call.lookup,
                                                       sc_call.tables))])
    /\ sc_pc' = "done"
    /\ UNCHANGED sc_call
    /\ UNCHANGED << aggVars, agg_order, handlerVars, callVars, fnVars, hopVars, waitVars >>

NextScore == CalculateScore \/ ProcessQuotes

SpecScore == InitScore /\ [][NextScore]_vars

\* SpecKey: generate_cache_key called for two requests that differ only in
\* the letter case of their chains and token.
KeyAlphabet == {"a", "A", "1", "SIGMA", "sigma", "final_sigma"}

KeyStrings == UNION {[1..n -> KeyAlphabet] : n \in 1..MaxKeyLen}

ShortStrings == {<< "a" >>, << "A" >>}

\* Unicode simple case folding of one character.
CaseFold(c) == IF c = "final_sigma" THEN "sigma" ELSE char_to_lowercase(c)

\* The strings differ at most in the case of their letters.
SameUpToCase(a, b) ==
    /\ Len(a) = Len(b)
    /\ \A k \in DOMAIN a : CaseFold(a[k]) = CaseFold(b[k])

CaseVariants(a, among) == {b \in among : SameUpToCase(a, b)}

\* One of the three strings ranges over the given strings, the other two
\* over ShortStrings.
KeyParams(strings) ==
    [from_chain : strings, to_chain : ShortStrings, token : ShortStrings, amount : {1},
         slippage : {default_slippage}]
    \cup [from_chain : ShortStrings, to_chain : strings, token : ShortStrings, amount : {1},
         slippage : {default_slippage}]
    \cup [from_chain : ShortStrings, to_chain : ShortStrings, token : strings, amount : {1},
         slippage : {default_slippage}]

KeyCalls(strings) ==
    UNION {
        {[fn |-> "generate_cache_key", x |-> x, y |-> y] :
            y \in [from_chain : CaseVariants(x.from_chain, strings),
                   to_chain   : CaseVariants(x.to_chain, strings),
                   token      : CaseVariants(x.token, strings),
                   amount     : {x.amount},
                   slippage   : {x.slippage}]} :
        x \in KeyParams(strings)}

KeyInit ==
    /\ fn_pc = "ready"
    /\ fn_call \in KeyCalls(KeyStrings)
    /\ fn_result = << >>

InitKey ==
    AggInit /\ HandlerInit /\ agg_order = << >> /\ ScoreIdle /\ CallIdle /\ KeyInit /\ HopIdle /\ WaitIdle

GenerateCacheKeys ==
    /\ fn_pc = "ready"
    /\ fn_call.fn = "generate_cache_key"
    /\ fn_result' = Some([x |-> generate_cache_key(fn_call.x),
                          y |-> generate_cache_key(fn_call.y)])
    /\ fn_pc' = "done"
    /\ UNCHANGED fn_call
    /\ UNCHANGED << aggVars, agg_order, handlerVars, scoreVars, callVars, hopVars, waitVars >>

NextKey == GenerateCacheKeys

SpecKey == InitKey /\ [][NextKey]_vars

\* SpecIp: the client identity of one request, as get_quotes computes it.
IpA == << "1", "0", ".", "0", ".", "0", ".", "1" >>
IpB == << "1", "0", ".", "0", ".", "0", ".", "2" >>
IpC == << "1", "0", ".", "0", ".", "0", ".", "3" >>

\* Values of X-Forwarded-For: absent, empty, blank, "unknown", one address
\* (bare and padded), lists whose first token is an address, empty or
\* "unknown", and a value that is not visible ASCII.
ForwardedForValues ==
    {None, Some(<< >>), Some(<< " " >>), Some(Unknown), Some(IpA),
     Some(<< " " >> \o IpA \o << " " >>),
     Some(IpA \o << ",", " " >> \o IpB),
     Some(<< " ", "," >> \o IpB),
     Some(Unknown \o << "," >> \o IpB),
     Some(<< "OPAQUE" >> \o IpA)}

\* Values of X-Real-IP and CF-Connecting-IP, around the address ip.
SingleIpValues(ip) ==
    {None, Some(<< >>), Some(Unknown), Some(ip), Some(<< "OPAQUE" >> \o ip)}

\* Peers: a remote client, and a client on the server's own host.
Peers == {[ip |-> ClientIp, port |-> 50000], [ip |-> Localhost, port |-> 50001]}

IpRequests(forwarded) ==
    {[params |-> BaseParams, x_forwarded_for |-> f, x_real_ip |-> r,
      cf_connecting_ip |-> c, extensions |-> ServerExtensions, peer |-> a] :
        f \in forwarded, r \in SingleIpValues(IpB), c \in SingleIpValues(IpC),
        a \in Peers}

IpInit ==
    /\ fn_pc = "ready"
    /\ fn_call \in {[fn |-> "client_ip", request |-> r] :
                       r \in IpRequests(ForwardedForValues)}
    /\ fn_result = << >>

InitIp ==
    AggInit /\ HandlerInit /\ agg_order = << >> /\ ScoreIdle /\ CallIdle /\ IpInit /\ HopIdle /\ WaitIdle

ExtractClientIp ==
    /\ fn_pc = "ready"
    /\ fn_call.fn = "client_ip"
    /\ fn_result' = Some(client_ip(fn_call.request))
    /\ fn_pc' = "done"
    /\ UNCHANGED fn_call
    /\ UNCHANGED << aggVars, agg_order, handlerVars, scoreVars, callVars, hopVars, waitVars >>

NextIp == ExtractClientIp

SpecIp == InitIp /\ [][NextIp]_vars

\* ------------------------------------------------------------------------
\* The Hop route table  (services/bridge_client/hop.rs, routes/quotes.rs)
\* ------------------------------------------------------------------------

\* get_quotes builds a new HopConfig for every request, so each request has
\* its own available_routes lock, table and last_updated; the route list in
\* Redis and the provider are shared.  hop_task[t] holds:
\*   pc            where hop::get_quote of the request is suspended
\*   write_held    the request holds the write guard on available_routes
\*   table         available_routes: "empty", "listed" (holds the requested
\*                 route) or "unlisted" (holds other routes only)
\*   last_updated  Option<time>
\*   refresh       what fetch_available_routes returned: "ok", "err", "none"
\*   attempted     get_cached_quote was called (history)
\*   result        "quote", "error", "unsupported_route", "elapsed", "none"
HOP_ROUTES_TTL_SECONDS == 3600
HOP_REFRESH_SECONDS == 3600

\* format!("hop:routes:{}", self.network.name)
HopRoutesKey == << "hop:routes:", "mainnet" >>

\* HopConfig::needs_refresh
needs_refresh(last_updated, now) ==
    IF last_updated = None THEN TRUE
    ELSE now - last_updated[1] > HOP_REFRESH_SECONDS

HopSet(t, fields) == hop_task' = [hop_task EXCEPT ![t] = fields]

HopOthersUnchanged ==
    /\ UNCHANGED << pc, req, bridge_results, response, reply, hist, window, verdict >>
    /\ UNCHANGED << aggVars, agg_order, scoreVars, callVars, fnVars, waitVars >>

\* A request reaches hop::get_quote with the HopConfig built for it.
HopStart(t) ==
    /\ hop_task[t].pc \in {"idle", "returned"}
    /\ Len(hop_fetched) < MaxFetches
    /\ HopSet(t, [NoHopTask EXCEPT !.pc = "needs_refresh"])
    /\ UNCHANGED << store, hop_clock, hop_fetched >>
    /\ HopOthersUnchanged

\* hop_config.needs_refresh().await
HopNeedsRefresh(t) ==
    /\ hop_task[t].pc = "needs_refresh"
    /\ HopSet(t, [hop_task[t] EXCEPT
                    !.pc = IF needs_refresh(hop_task[t].last_updated, hop_clock)
                           THEN "probe" ELSE "route_check"])
    /\ UNCHANGED << store, hop_clock, hop_fetched >>
    /\ HopOthersUnchanged

\* fetch_available_routes: cache_client.get_cache(&cache_key).await
\* Ok(Some(routes)) takes the cache path, all else the provider path.
HopProbe(t, o) ==
    /\ hop_task[t].pc = "probe"
    /\ LET got == get_cache(store, HopRoutesKey, o)
       IN  HopSet(t, [hop_task[t] EXCEPT
                        !.pc = IF got.ok /\ got.value # None
                               THEN "cached_write" ELSE "fetch"])
    /\ UNCHANGED << store, hop_clock, hop_fetched >>
    /\ HopOthersUnchanged

\* Cache path: let mut routes = self.available_routes.write().await;
\* *routes = cached_routes;  the guard lives to the end of the block.
HopCachedWrite(t) ==
    /\ hop_task[t].pc = "cached_write"
    /\ ~hop_task[t].write_held
    /\ HopSet(t, [hop_task[t] EXCEPT
                    !.pc = "cached_update_lists",
                    !.write_held = TRUE,
                    !.table = store[HopRoutesKey].val])
    /\ UNCHANGED << store, hop_clock, hop_fetched >>
    /\ HopOthersUnchanged

\* Provider path: client.get(url).send() under config.timeout, the status
\* check, response.text() and serde_json::from_str.
HopFetchOutcomes ==
    {"listed", "unlisted", "timeout", "network", "bad_status", "bad_body"}

HopFetch(t, o) ==
    /\ hop_task[t].pc = "fetch"
    /\ hop_fetched' = Append(hop_fetched, hop_clock)
    /\ IF o \in {"listed", "unlisted"}
       THEN HopSet(t, [hop_task[t] EXCEPT !.pc = "fetched_write", !.refresh = o])
       ELSE HopSet(t, [hop_task[t] EXCEPT !.pc = "route_check", !.refresh = "err"])
    /\ UNCHANGED << store, hop_clock >>
    /\ HopOthersUnchanged

\* Provider path: { let mut available_routes = ...write().await;
\*                  *available_routes = routes.clone(); }
HopFetchedWrite(t) ==
    /\ hop_task[t].pc = "fetched_write"
    /\ ~hop_task[t].write_held
    /\ HopSet(t, [hop_task[t] EXCEPT
                    !.pc = "fetched_update_lists",
                    !.table = hop_task[t].refresh])
    /\ UNCHANGED << store, hop_clock, hop_fetched >>
    /\ HopOthersUnchanged

\* update_supported_lists: self.available_routes.read().await is granted
\* when no write guard is held; then the token and chain lists are
\* rebuilt and last_updated is set.  On the cache path the block ends
\* here: the guard is dropped and Ok(()) returned.
HopUpdateLists(t) ==
    /\ hop_task[t].pc \in {"cached_update_lists", "fetched_update_lists"}
    /\ ~hop_task[t].write_held
    /\ HopSet(t, [hop_task[t] EXCEPT
                    !.pc = IF hop_task[t].pc = "cached_update_lists"
                           THEN "route_check" ELSE "cache_routes",
                    !.refresh = IF hop_task[t].pc = "cached_update_lists"
                                THEN "ok" ELSE @,
                    !.last_updated = Some(hop_clock)])
    /\ UNCHANGED << store, hop_clock, hop_fetched >>
    /\ HopOthersUnchanged

\* Provider path: cache_client.set_cache(&cache_key, &routes, 3600).await,
\* a failure being logged only; Ok(()) is returned.
HopCacheRoutes(t, o) ==
    /\ hop_task[t].pc = "cache_routes"
    /\ store' = set_cache(store, HopRoutesKey, hop_task[t].table,
                          HOP_ROUTES_TTL_SECONDS, o)
    /\ HopSet(t, [hop_task[t] EXCEPT !.pc = "route_check", !.refresh = "ok"])
    /\ UNCHANGED << hop_clock, hop_fetched >>
    /\ HopOthersUnchanged

\* get_quote after the refresh, whose failure was logged only:
\* is_route_supported reads the table under the read lock; an unlisted
\* route returns Err(UnsupportedRoute).
HopRouteCheck(t) ==
    /\ hop_task[t].pc = "route_check"
    /\ ~hop_task[t].write_held
    /\ IF hop_task[t].table = "listed"
       THEN HopSet(t, [hop_task[t] EXCEPT !.pc = "quote"])
       ELSE HopSet(t, [hop_task[t] EXCEPT
                         !.pc = "returned", !.result = "unsupported_route"])
    /\ UNCHANGED << store, hop_clock, hop_fetched >>
    /\ HopOthersUnchanged

\* get_cached_quote(&cache_key, &config.cache, || fetch_hop_quote(..)).await
HopQuote(t, o) ==
    /\ hop_task[t].pc = "quote"
    /\ HopSet(t, [hop_task[t] EXCEPT
                    !.pc = "returned", !.attempted = TRUE, !.result = o])
    /\ UNCHANGED << store, hop_clock, hop_fetched >>
    /\ HopOthersUnchanged

\* The deadline of timeout(bridge_timeout, hop::get_quote(..)) falls while
\* the future is suspended: the future is dropped, and its guards with it.
HopDeadline(t) ==
    /\ hop_task[t].pc \notin {"idle", "returned"}
    /\ HopSet(t, [hop_task[t] EXCEPT
                    !.pc = "returned", !.write_held = FALSE, !.result = "elapsed"])
    /\ UNCHANGED << store, hop_clock, hop_fetched >>
    /\ HopOthersUnchanged

\* Time passes between requests (a request lasts seconds at most).
HopDurations == {HOP_REFRESH_SECONDS \div 2, HOP_REFRESH_SECONDS}

HopAdvance(d) ==
    /\ \A t \in HopTasks : hop_task[t].pc \in {"idle", "returned"}
    /\ hop_clock + d <= MaxHopClock
    /\ hop_clock' = hop_clock + d
    /\ store' = Elapse(store, d)
    /\ UNCHANGED << hop_task, hop_fetched >>
    /\ HopOthersUnchanged

NextHop ==
    \/ \E t \in HopTasks :
          \/ HopStart(t)
          \/ HopNeedsRefresh(t)
          \/ \E o \in StoreOutcome : HopProbe(t, o)
          \/ HopCachedWrite(t)
          \/ \E o \in HopFetchOutcomes : HopFetch(t, o)
          \/ HopFetchedWrite(t)
          \/ HopUpdateLists(t)
          \/ \E o \in StoreOutcome : HopCacheRoutes(t, o)
          \/ HopRouteCheck(t)
          \/ \E o \in {"quote", "error"} : HopQuote(t, o)
          \/ HopDeadline(t)
    \/ \E d \in HopDurations : HopAdvance(d)

SpecHop == Init /\ [][NextHop]_vars

\* ------------------------------------------------------------------------
\* The suspension points of a request  (routes/quotes.rs get_quotes,
\* cache/mod.rs, services/bridge_client.rs)
\* ------------------------------------------------------------------------

\* SpecBounded: one request followed from one await to the next, with the
\* time it spends suspended at each, against services of which any may
\* never answer.

\* Duration::from_secs(..) of the deadlines: CacheConfig::default, the
\* metadata lookup; the adapters have BRIDGE_TIMEOUT_SECONDS.
CONNECTION_TIMEOUT_SECONDS == 5
COMMAND_TIMEOUT_SECONDS == 3
METADATA_TIMEOUT_SECONDS == 3

\* Redis, PostgreSQL, and the providers' APIs.
Services == {"store", "database", "providers"}

\* The calls of get_quotes into CacheClient, in the order of the code.
CacheOps == {"increment", "expire", "probe", "stale", "write_fresh", "write_stale"}

\* The first await of an operation: a CacheClient method starts with
\* get_connection; the aggregator and the metadata lookup are one await of
\* the handler each.
FirstStep(op) ==
    [op |-> op, step |-> IF op \in CacheOps THEN "get_connection" ELSE "call"]

\* The response has been returned.
Responded == [op |-> "respond", step |-> "done"]

\* The parameter checks: 400, or the fresh-cache probe.
AfterValidate == {Responded, FirstStep("probe")}

\* Where the handler goes when an operation has returned; o is "ok", "err"
\* or "elapsed".  Which of the ways is taken depends on the data.
AfterOp(op, o) ==
    CASE op = "increment"   -> IF o = "ok"
                               THEN {Responded, FirstStep("expire")} \cup AfterValidate
                               ELSE AfterValidate
      [] op = "expire"      -> AfterValidate
      [] op = "probe"       -> IF o = "ok"
                               THEN {Responded, FirstStep("aggregate")}
                               ELSE {FirstStep("aggregate")}
      [] op = "aggregate"   -> {FirstStep("stale"), FirstStep("metadata")}
      [] op = "stale"       -> {Responded}
      [] op = "metadata"    -> {FirstStep("write_fresh")}
      [] op = "write_fresh" -> {FirstStep("write_stale")}
      [] op = "write_stale" -> {Responded}

\* Where the handler goes when the await at point has resolved with o: a
\* connection is followed by the command, everything else ends the
\* operation (get_connection().await? returns the error).
Resolve(point, o) ==
    IF point.step = "get_connection" /\ o = "ok"
    THEN {[op |-> point.op, step |-> "command"]}
    ELSE AfterOp(point.op, o)

\* The service an await waits for.
ServiceOf(point) ==
    CASE point.op \in CacheOps  -> "store"
      [] point.op = "metadata"  -> "database"
      [] point.op = "aggregate" -> "providers"

\* The duration passed to the timeout that wraps the await.
Deadline(point) ==
    CASE point.step = "get_connection" -> CONNECTION_TIMEOUT_SECONDS
      [] point.step = "command"        -> COMMAND_TIMEOUT_SECONDS
      [] point.op = "metadata"         -> METADATA_TIMEOUT_SECONDS
      [] point.op = "aggregate"        -> BRIDGE_TIMEOUT_SECONDS

\* Mutant: the pool is awaited without a deadline.
DeadlineWrappedExceptPool(point) == point.step # "get_connection"

\* Every await of the request is inside a tokio::time::timeout.
DeadlineWrapped(point) == TRUE

Suspended == wt_point \notin {NotReceived, Responded}

WaitOthersUnchanged == UNCHANGED << aggVars, agg_order, handlerVars, scoreVars, callVars, fnVars, hopVars >>

\* The request arrives: the rate limiter's increment is the first await.
WaitReceive ==
    /\ wt_point = NotReceived
    /\ wt_point' = FirstStep("increment")
    /\ UNCHANGED << wt_waited, wt_elapsed, wt_silent >>
    /\ WaitOthersUnchanged

\* The awaited service answers, with a result or an error, before the
\* deadline has fired.  The estimate-only adapters need no provider, but
\* the join returns only when every adapter has settled.
WaitAnswer(o, next) ==
    /\ Suspended
    /\ ServiceOf(wt_point) \notin wt_silent
    /\ o \in {"ok", "err"}
    /\ next \in Resolve(wt_point, o)
    /\ wt_point' = next
    /\ wt_waited' = 0
    /\ UNCHANGED << wt_elapsed, wt_silent >>
    /\ WaitOthersUnchanged

\* The timeout around the await fires: Err(Elapsed).
WaitElapsed(next) ==
    /\ Suspended
    /\ DeadlineWrapped(wt_point)
    /\ wt_waited = Deadline(wt_point)
    /\ next \in Resolve(wt_point, "elapsed")
    /\ wt_point' = next
    /\ wt_waited' = 0
    /\ UNCHANGED << wt_elapsed, wt_silent >>
    /\ WaitOthersUnchanged

\* A second passes while the handler is suspended.  A timer that is due
\* fires before the clock moves on.
WaitTick ==
    /\ Suspended
    /\ DeadlineWrapped(wt_point) => wt_waited < Deadline(wt_point)
    /\ wt_elapsed < MaxElapsed
    /\ wt_waited' = wt_waited + 1
    /\ wt_elapsed' = wt_elapsed + 1
    /\ UNCHANGED << wt_point, wt_silent >>
    /\ WaitOthersUnchanged

WaitPoints ==
    {FirstStep(op) : op \in CacheOps \cup {"aggregate", "metadata"}}
    \cup {[op |-> op, step |-> "command"] : op \in CacheOps} \cup {Responded}

InitBounded ==
    /\ AggInit /\ HandlerInit /\ agg_order = << >>
    /\ ScoreIdle /\ CallIdle /\ FnIdle /\ HopIdle
    /\ wt_point = NotReceived
    /\ wt_waited = 0
    /\ wt_elapsed = 0
    /\ wt_silent \in SUBSET Services

NextBounded ==
    \/ WaitReceive
    \/ \E o \in {"ok", "err"}, next \in WaitPoints : WaitAnswer(o, next)
    \/ \E next \in WaitPoints : WaitElapsed(next)
    \/ WaitTick

\* The runtime polls a task that has been woken, and time does not stop.
SpecBounded == InitBounded /\ [][NextBounded]_vars /\ WF_vars(NextBounded)

\* ------------------------------------------------------------------------
\* Properties
\* ------------------------------------------------------------------------

Done(p) == pc[p] = "done"

RouteBridges(routes) == [k \in DOMAIN routes |-> routes[k].bridge]

SameChain(params) ==
    to_lowercase(params.from_chain) = to_lowercase(params.to_chain)

C3_PartialFailureIsMiss ==
    \A p \in Handlers :
        Done(p) /\ hist[p].quoted # << >> =>
            /\ reply[p].status = 200
            /\ reply[p].x_cache = "MISS"
            /\ RouteBridges(reply[p].body.routes) = hist[p].quoted
            /\ reply[p].body.errors = << >>

\* C3 witness: a request was answered although the first adapter of the
\* registry failed: only the second one quoted.
C3_SecondAdapterOnlyQuoted ==
    \E p \in Handlers :
        /\ Done(p)
        /\ hist[p].quoted = << Registry[2] >>
        /\ reply[p].x_cache = "MISS"

\* A response served from the stale key, with all its headers.
ServedStale(r) ==
    /\ r.status = 200
    /\ r.x_cache = "STALE"
    /\ r.cache_control = "public, max-age=0, must-revalidate"
    /\ r.warning = "110 - \"Response is Stale\""

\* C4 as stated (Spec): a request is served from the stale key exactly when
\* its fresh probe did not hit, every adapter failed and an entry exists
\* under <key>_stale.
C4_StaleExactlyWhenEntryExists ==
    \A p \in Handlers :
        Done(p) =>
            (ServedStale(reply[p]) <=>
                /\ hist[p].fresh \in {"miss", "err"}
                /\ hist[p].invoked
                /\ hist[p].quoted = << >>
                /\ hist[p].stale_present)

\* C4 amended (Spec): a request is served from the stale key (200, X-Cache:
\* STALE, Warning 110, Cache-Control: public, max-age=0, must-revalidate)
\* exactly when its fresh probe did not hit, every adapter failed and the
\* read of <key>_stale returned an entry; X-Cache: STALE never goes without
\* the other stale headers, and never with an adapter that quoted.
C4_StaleExactlyWhenStaleReadHits ==
    \A p \in Handlers :
        Done(p) =>
            /\ ServedStale(reply[p]) <=>
                  /\ hist[p].fresh \in {"miss", "err"}
                  /\ hist[p].invoked
                  /\ hist[p].quoted = << >>
                  /\ hist[p].stale = "hit"
            /\ reply[p].x_cache = "STALE" => ServedStale(reply[p])
            /\ hist[p].quoted # << >> => reply[p].x_cache # "STALE"

\* C4 witness: a request was served from the stale key after its fresh probe
\* missed and all ten adapters failed.
C4_StaleServed ==
    \E p \in Handlers :
        /\ Done(p)
        /\ ServedStale(reply[p])
        /\ hist[p].fresh = "miss"
        /\ hist[p].invoked
        /\ reply[p].body.routes # << >>

\* C5 as stated (Spec): when every adapter failed and no entry exists under
\* the stale key, the response is 502 and its body lists one {bridge, error}
\* entry for each adapter that failed.
C5_BadGatewayListsErrors ==
    \A p \in Handlers :
        Done(p) /\ hist[p].invoked /\ hist[p].quoted = << >> /\ ~hist[p].stale_present =>
            /\ reply[p].status = 502
            /\ RouteBridges(reply[p].body.errors) = Registry

\* C6 (SpecLimit): in a window in which every increment reached the store
\* and was answered, a request that follows N requests of its client that
\* were not rate-limited is answered 429, with the message of the limit, if
\* and only if N >= 100, however the handlers interleave.
C6_LimitAfterHundred ==
    \A p \in Handlers :
        Done(p) /\ verdict[p].judged =>
            /\ reply[p].status = 429 <=> verdict[p].over
            /\ reply[p].status = 429 =>
                  reply[p].body.error =
                      "Rate limit exceeded. Maximum 100 requests per minute."

\* C6 witness: the request after 100 admitted ones of the window has been
\* answered 429.
C6_HundredAndFirstLimited ==
    \E p \in Handlers :
        /\ Done(p)
        /\ verdict[p].judged /\ verdict[p].over
        /\ window.admitted = RATE_LIMIT_PER_MINUTE
        /\ reply[p].status = 429

\* C7 as stated (SpecLimit): once no handler is between its increment and
\* its expire, every rate-limit counter key that exists carries a TTL of at
\* most 60 s.
C7_CounterKeyExpires ==
    (\A p \in Handlers : pc[p] \notin {"limit", "expire"}) =>
        \A k \in DOMAIN store :
            k[1] = "rate_limit:quotes:" =>
                /\ store[k].ttl # Persistent
                /\ store[k].ttl <= RATE_LIMIT_WINDOW_SECONDS

\* C8 (Spec): a request whose increment failed or timed out is never
\* answered 429; it goes on to validation, the fresh probe and (unless the
\* probe hits) aggregation like an admitted request.
C8_FailOpen ==
    \A p \in Handlers :
        hist[p].incr \in {"err", "lost"} =>
            /\ pc[p] \notin {"limit", "expire"}
            /\ Done(p) =>
                  /\ reply[p].status # 429
                  /\ reply[p].status = 400 <=> ValidationError(req[p][1].params) # None
                  /\ ValidationError(req[p][1].params) = None =>
                        /\ reply[p].status \in {200, 502}
                        /\ hist[p].fresh # "none"
                        /\ hist[p].fresh # "hit" => hist[p].invoked

\* C8 witness: a request whose increment failed was answered 200 from the
\* adapters.
C8_ServedWithoutCounter ==
    \E p \in Handlers :
        /\ Done(p)
        /\ hist[p].incr = "err"
        /\ hist[p].invoked
        /\ reply[p].status = 200
        /\ reply[p].x_cache = "MISS"

\* C9 as stated (SpecLimit): every request whose from_chain equals its
\* to_chain ignoring letter case is answered 400 "Source and destination
\* chains must be different", and no adapter is invoked for it.
C9_SameChainRejected ==
    \A p \in Handlers :
        Done(p) /\ SameChain(req[p][1].params) =>
            /\ reply[p].status = 400
            /\ reply[p].body.error = "Source and destination chains must be different"
            /\ ~hist[p].invoked

\* C10 as stated (Spec): a request that is answered 400 has not incremented
\* the rate-limit counter of its client.
C10_RejectedNotCounted ==
    \A p \in Handlers :
        Done(p) /\ reply[p].status = 400 => hist[p].incr \notin {"ok", "lost"}

\* C11 (Spec): every 200 response, served as MISS, HIT or STALE, that has a
\* non-empty routes list has an empty errors list.
C11_RoutesExcludeErrors ==
    \A p \in Handlers :
        Done(p) /\ reply[p].status = 200 /\ reply[p].body.routes # << >> =>
            /\ reply[p].x_cache \in {"MISS", "HIT", "STALE"}
            /\ reply[p].body.errors = << >>

\* C11 witness: a response with routes was served from the fresh cache
\* entry of a request in which some adapters had failed.
C11_HitWithRoutes ==
    \E p \in Handlers :
        /\ Done(p)
        /\ reply[p].status = 200
        /\ reply[p].x_cache = "HIT"
        /\ Len(reply[p].body.routes) = 1

NamesAscending ==
    << "Across", "Axelar", "Everclear", "Hop", "LayerZero",
       "Orbiter", "Stargate", "Synapse", "Wormhole", "cBridge" >>

NameRank(b) == CHOOSE i \in DOMAIN NamesAscending : NamesAscending[i] = b

SortedByScore(routes) ==
    \A i \in 1..(Len(routes) - 1) :
        \/ f64_lt(routes[i + 1].score, routes[i].score)
        \/ /\ f64_eq(routes[i + 1].score, routes[i].score)
           /\ NameRank(routes[i].bridge) < NameRank(routes[i + 1].bridge)

\* C13: the routes of every 200 response are sorted by score descending,
\* routes of equal score by bridge name ascending.
C13_RoutesSortedByScore ==
    \A p \in Handlers :
        (Done(p) /\ reply[p].status = 200) => SortedByScore(reply[p].body.routes)

\* C14 (SpecAggOrder): in whatever order the adapter calls complete or run
\* into the deadline, the entries get_all_bridge_quotes returns are in the
\* order of the adapter registry: Everclear, Hop, Axelar, Across, Stargate,
\* Wormhole, LayerZero, Orbiter, cBridge, Synapse.
C14_EntriesInRegistryOrder ==
    agg_pc = "returned" =>
        [k \in DOMAIN agg_results |-> agg_results[k].bridge] =
            << "Everclear", "Hop", "Axelar", "Across", "Stargate",
               "Wormhole", "LayerZero", "Orbiter", "cBridge", "Synapse" >>

\* C14 witness: a call returned after a later adapter of the registry had
\* completed before an earlier one, and others ran into the deadline.
C14_CompletedOutOfOrder ==
    /\ agg_pc = "returned"
    /\ \E a, b \in DOMAIN agg_order : a < b /\ agg_order[a] > agg_order[b]
    /\ \E i \in AdapterIdx : adapter[i] = "elapsed"

\* C15 (SpecRetry): whatever config.retries is and on whichever attempt
\* it occurs, an UnsupportedAsset, UnsupportedRoute or JsonParsing error of
\* the operation ends the retry loop: it is the last run of the operation,
\* it is the error returned, and no backoff sleep follows it.
C15_NonRetryableEndsLoop ==
    \A i \in DOMAIN rt_ran :
        (/\ rt_ran[i].tag = "Err"
         /\ rt_ran[i].what \in {"UnsupportedAsset", "UnsupportedRoute", "JsonParsing"})
        => /\ i = Len(rt_ran)
           /\ rt_pc = "returned"
           /\ rt_result = Some(rt_ran[i])
           /\ Len(rt_slept) = i - 1

\* C15 witness: after a retryable error and one backoff sleep the second
\* run failed with a JSON parsing error and the call returned it with an
\* attempt still left.
C15_ParsingErrorOnSecondAttempt ==
    /\ rt_pc = "returned"
    /\ Len(rt_ran) = 2
    /\ rt_ran[2].what = "JsonParsing"
    /\ rt_attempt < rt_retries
    /\ rt_slept = << 100 >>

C17_ProviderFailureYieldsEstimate ==
    \A i \in DOMAIN rt_ran :
        (/\ ad_mapping = "ok"
         /\ rt_ran[i].provider \in {"send_error", "send_timeout", "non_2xx", "parse_error"})
        => rt_ran[i] = Ok("estimate", rt_ran[i].provider)

\* The answer to a request whose adapters were called while the cache held
\* nothing for it: 200 MISS with the routes of the adapters that quoted, or
\* 502 when none did.
EmptyCacheAnswer(p) ==
    IF hist[p].quoted # << >>
    THEN /\ reply[p].status = 200
         /\ reply[p].x_cache = "MISS"
         /\ RouteBridges(reply[p].body.routes) = hist[p].quoted
         /\ reply[p].body.errors = << >>
    ELSE reply[p].status = 502

\* C18 as stated (Spec): a request in which a quote-cache operation failed
\* (fresh read, stale read or a write) gets the status and body it would
\* get with an empty cache.
C18_CacheFailureAsEmptyCache ==
    \A p \in Handlers :
        (/\ Done(p)
         /\ hist[p].invoked
         /\ \/ hist[p].fresh = "err"
            \/ hist[p].stale = "err"
            \/ hist[p].cached = "err")
        => EmptyCacheAnswer(p)

\* C18 amended (Spec): a failed read is a miss of the key that was read and
\* a failed write is not surfaced.  A request whose fresh read missed or
\* failed is answered from the adapters when one quotes, whatever becomes of
\* the writes; when none quotes it is answered from the stale key if that
\* read returns an entry, and 502 if it misses or fails.  HIT and STALE are
\* only answered from an entry that exists.
C18_CacheFailureAsMiss ==
    \A p \in Handlers :
        Done(p) =>
            /\ hist[p].invoked =>
                  /\ hist[p].fresh \in {"miss", "err"}
                  /\ IF hist[p].quoted # << >> \/ hist[p].stale # "hit"
                     THEN EmptyCacheAnswer(p)
                     ELSE reply[p].status = 200 /\ reply[p].x_cache = "STALE"
            /\ reply[p].x_cache = "HIT" => hist[p].fresh_present /\ ~hist[p].invoked
            /\ reply[p].x_cache = "STALE" => hist[p].stale_present

\* C18 witness: a request whose fresh read failed although an entry
\* existed, and whose fresh write failed too, was answered 200 MISS with
\* routes.
C18_ServedDespiteFailures ==
    \E p \in Handlers :
        /\ Done(p)
        /\ hist[p].fresh = "err"
        /\ hist[p].fresh_present
        /\ hist[p].cached = "err"
        /\ reply[p].status = 200
        /\ reply[p].x_cache = "MISS"
        /\ reply[p].body.routes # << >>

\* No metadata for the k-th quote of the call: the lookup failed, ran over
\* its deadline, or found no row for the bridge in either table.
NoMetadataFor(k) ==
    \/ sc_call.lookup \in {"error", "elapsed"}
    \/ /\ sc_call.tables[k].audit_count = 0
       /\ sc_call.tables[k].exploit_count = 0

\* C19 (SpecScore): whatever the metadata lookup does, every quote comes
\* back as a route, in the same order; and a route whose bridge has no
\* metadata (lookup error, deadline, or no row) carries the score computed
\* with has_audit = false and has_exploit = false.
C19_MissingMetadataIsUnaudited ==
    (sc_pc = "done" /\ sc_call.fn = "process_quotes_with_security") =>
        LET quotes == sc_call.quotes
            routes == sc_result[1].routes
        IN  /\ Len(routes) = Len(quotes)
            /\ \A k \in DOMAIN quotes :
                  /\ routes[k].bridge = quotes[k].bridge
                  /\ NoMetadataFor(k) =>
                        routes[k].score =
                            calculate_score_with_config(
                                quotes[k].fee, quotes[k].est_time, FALSE, FALSE,
                                DefaultScoringConfig)

\* C19 witness: of two quotes with the same fee and time the first bridge
\* had an audit row and the second no row at all; both came back, the
\* first with the audit bonus in its score and the second without.
C19_OneRowMissing ==
    /\ sc_pc = "done"
    /\ sc_call.fn = "process_quotes_with_security"
    /\ Len(sc_call.quotes) = 2
    /\ sc_call.quotes[1].fee = sc_call.quotes[2].fee
    /\ sc_call.quotes[1].est_time = sc_call.quotes[2].est_time
    /\ sc_call.lookup = "ok"
    /\ sc_call.tables[1].audit_count > 0 /\ sc_call.tables[1].exploit_count = 0
    /\ sc_call.tables[2].audit_count = 0 /\ sc_call.tables[2].exploit_count = 0
    /\ Len(sc_result[1].routes) = 2
    /\ f64_lt(sc_result[1].routes[2].score, sc_result[1].routes[1].score)

\* C20 (SpecScore): for every fee (zero, negative, infinite, NaN), every
\* est_time up to u64::MAX, all flags and every weights configuration, the
\* score returned by calculate_score_with_config lies in [0, 1].
C20_ScoreInUnitInterval ==
    (sc_pc = "done" /\ sc_call.fn = "calculate_score_with_config") =>
        /\ f64_le(Fin(0), sc_result[1].score)
        /\ f64_le(sc_result[1].score, Fin(SCALE))

\* C21 (SpecKey): two requests that differ only in the letter case of
\* from_chain, to_chain or token get the same cache key.
C21_KeyIgnoresCase ==
    (fn_pc = "done" /\ fn_call.fn = "generate_cache_key") =>
        fn_result[1].x = fn_result[1].y

\* A header value that can serve as identity: non-empty and not "unknown".
Usable(v) == v # << >> /\ v # Unknown

\* The identity the headers of a request give, if any, in the order
\* X-Forwarded-For (first token, trimmed), X-Real-IP, CF-Connecting-IP.
HeaderIdentity(request) ==
    LET first == IF request.x_forwarded_for = None THEN << >>
                 ELSE Trim(FirstToken(request.x_forwarded_for[1]))
    IN  IF Usable(first) THEN Some(first)
        ELSE IF request.x_real_ip # None /\ Usable(request.x_real_ip[1])
        THEN request.x_real_ip
        ELSE IF request.cf_connecting_ip # None /\ Usable(request.cf_connecting_ip[1])
        THEN request.cf_connecting_ip
        ELSE None

\* C22 (SpecIp): the client identity is the first usable value among the
\* trimmed first token of X-Forwarded-For, X-Real-IP and CF-Connecting-IP,
\* and the peer address of the connection when no header is usable.
C22_FirstUsableIdentity ==
    (fn_pc = "done" /\ fn_call.fn = "client_ip") =>
        LET id == HeaderIdentity(fn_call.request)
        IN  fn_result[1] = IF id # None THEN id[1] ELSE fn_call.request.peer.ip

\* 1 - slippage / 100, for a slippage given in percent.
KeptShare(slippage) == f64_sub(Fin(SCALE), f64_div(slippage, Fin(100 * SCALE)))

\* a and b are finite and differ by at most one unit of the last digit kept.
WithinTolerance(a, b) ==
    /\ a.k = "fin" /\ b.k = "fin"
    /\ Abs(a.v - b.v) <= 1

\* C23 (Spec): every route of a /quotes response has an output whose minimum
\* is its expected amount times (1 - slippage / 100), within tolerance,
\* for the slippage of the request.
C23_MinimumAfterSlippage ==
    \A p \in Handlers :
        Done(p) /\ reply[p].status = 200 =>
            \A k \in DOMAIN reply[p].body.routes :
                LET route == reply[p].body.routes[k]
                IN  /\ "output" \in DOMAIN route
                    /\ WithinTolerance(
                           route.output.minimum,
                           f64_mul(route.output.expected,
                                   KeptShare(req[p][1].params.slippage)))

\* Every adapter of the returned call failed, by typed error or by deadline.
AllAdaptersFailed ==
    /\ agg_pc = "returned"
    /\ \A i \in AdapterIdx : adapter[i] \in {"error", "elapsed"}

C25_WriteReleasedBeforeRead ==
    \A t \in HopTasks :
        hop_task[t].pc \in {"cached_update_lists", "fetched_update_lists"} =>
            ~hop_task[t].write_held

\* C29 (SpecHop): across all requests, concurrent or not, two requests for
\* the route list sent to the provider are never less than 3600 s apart.
C29_FetchesAnHourApart ==
    \A i, j \in DOMAIN hop_fetched :
        i < j => hop_fetched[j] - hop_fetched[i] >= HOP_REFRESH_SECONDS

\* C30 (SpecHop): a request whose route-table refresh failed still makes its
\* quote attempt, unless its deadline cut it short.
C30_QuoteAttemptedAfterFailedRefresh ==
    \A t \in HopTasks :
        /\ hop_task[t].pc = "returned"
        /\ hop_task[t].refresh = "err"
        /\ hop_task[t].result # "elapsed"
        => hop_task[t].attempted

\* C28 (SpecRetry): retry_request runs the operation at most retries + 1
\* times; a success is the last run and is what is returned; the sleep
\* after run number i (counted from 1) lasts 100 * 2^(i-1) ms, follows a
\* retryable error that was not the last permitted run, and every run but
\* the first is preceded by such a sleep; when the call returns after a
\* failure, it returns the error of the last run.
C28_RetryDiscipline ==
    /\ Len(rt_ran) <= rt_retries + 1
    /\ \A i \in DOMAIN rt_ran :
           rt_ran[i].tag = "Ok"
           => i = Len(rt_ran) /\ rt_pc = "returned" /\ rt_result = Some(rt_ran[i])
    /\ Len(rt_slept) <= Len(rt_ran)
    /\ Len(rt_slept) >= Len(rt_ran) - 1
    /\ \A i \in DOMAIN rt_slept :
           /\ rt_slept[i] = 100 * (2 ^ (i - 1))
           /\ i <= rt_retries
           /\ rt_ran[i].tag = "Err"
           /\ rt_ran[i].what \notin {"UnsupportedAsset", "UnsupportedRoute", "JsonParsing"}
    /\ rt_pc = "returned"
       => /\ rt_ran # << >>
          /\ rt_result = Some(rt_ran[Len(rt_ran)])
          /\ Len(rt_slept) = Len(rt_ran) - 1

\* C28 witness: with two retries allowed the operation failed three times
\* with retryable errors, the loop slept 100 ms and 200 ms, and the call
\* returned the third error.
C28_AllAttemptsFailed ==
    /\ rt_pc = "returned"
    /\ rt_retries = 2
    /\ Len(rt_ran) = 3
    /\ \A i \in 1..3 : rt_ran[i].tag = "Err"
    /\ rt_ran[3].what = "ServiceUnavailable"
    /\ rt_ran[1].what = "Network"
    /\ rt_slept = << 100, 200 >>
    /\ rt_result = Some(rt_ran[3])

\* C26 (SpecDeadline): once the timeout wrapper of an adapter has resolved
\* to Err(Elapsed), and so also after its entry has been recorded as a
\* timeout, the adapter takes no further step: it sends no HTTP request,
\* runs no further attempt, starts no backoff sleep, writes nothing to the
\* cache and does not return.
C26_NoStepAfterDeadline ==
    [][adapter[Followed] = "elapsed"
       => UNCHANGED << ad_sent, rt_pc, rt_attempt, rt_ran, rt_slept, rt_result, store >>]_vars

\* C26 witness: the adapter had sent one request, which failed, and was in
\* its backoff sleep when the deadline fell; the aggregator has recorded
\* its entry as a timeout.
C26_ElapsedDuringBackoff ==
    /\ agg_pc = "returned"
    /\ adapter[Followed] = "elapsed"
    /\ agg_results[Followed].bridge = ad_name
    /\ agg_results[Followed].error = Some([kind |-> "Timeout after", secs |-> agg_timeout])
    /\ rt_pc = "sleep"
    /\ ad_sent = 1
    /\ Len(rt_slept) = 1

\* The deadlines along the longest way through get_quotes: five cache
\* operations (increment, expire, fresh probe, the two writes), the
\* aggregator and the metadata lookup.
ResponseBound ==
    5 * (CONNECTION_TIMEOUT_SECONDS + COMMAND_TIMEOUT_SECONDS)
    + BRIDGE_TIMEOUT_SECONDS + METADATA_TIMEOUT_SECONDS

\* C27 (SpecBounded): every request that has arrived is answered, and no
\* later than ResponseBound seconds after it arrived, whichever of the
\* store, the database and the providers never answer.
C27_AnsweredWithinBound ==
    (wt_point # NotReceived) ~> (wt_point = Responded /\ wt_elapsed <= ResponseBound)

\* C27 witness: no service ever answered; the request was answered after
\* the connection deadlines of the increment, the fresh probe and the
\* stale probe and the deadline of the adapters.
C27_AnsweredInSilence ==
    /\ wt_point = Responded
    /\ wt_silent = Services
    /\ wt_elapsed = 3 * CONNECTION_TIMEOUT_SECONDS + BRIDGE_TIMEOUT_SECONDS

\* C31 (SpecCached): the adapter's cache entry never holds a fallback
\* estimate; only quotes parsed from a provider response are stored.
C31_NoEstimateCached ==
    \A k \in DOMAIN store : store[k].val.kind # "estimate"

\* C32 (SpecCached): when a call of an adapter was made while its cache
\* entry held a readable quote and the read did not fail, the call returns
\* that quote, has sent no request to the provider and has written nothing:
\* the entry is as it was.  When the read failed or the value could not be
\* decoded, the call went on to the fetcher.
C32_CachedQuoteReturned ==
    fn_pc = "done"
    => /\ (/\ fn_call.entry # None
           /\ Decodable(fn_call.entry[1])
           /\ fn_call.probe # "err")
          => /\ fn_result = Some([tag |-> "Ok", quote |-> fn_call.entry[1]])
             /\ ad_sent = 0
             /\ fn_call.write = "none"
             /\ GET(store, AdapterCacheKey(ad_name)) = fn_call.entry
       /\ fn_call.probe \in {"err", "undecodable"} => rt_ran # << >>

\* C33 (SpecCached): a call whose fetch succeeded returns Ok whatever
\* set_cache did, and when set_cache was executed the entry holds the
\* returned quote with TTL 600 s for est_time < 60, 300 s for
\* 60 <= est_time < 300 and 120 s otherwise; a call whose fetch failed
\* returns the error, has not called set_cache and leaves the entry as it
\* was.
C33_DynamicTtl ==
    LET key == AdapterCacheKey(ad_name)
        fetched == rt_result # None /\ rt_result[1].tag = "Ok"
    IN  (fn_pc = "done" /\ fn_call.probe # "hit")
        => /\ fetched
              => /\ fn_result[1].tag = "Ok"
                 /\ fn_call.write # "none"
                 /\ fn_call.write \in {"ok", "lost"}
                    => /\ HasKey(store, key)
                       /\ store[key].val = fn_result[1].quote
                       /\ store[key].ttl =
                            IF fn_result[1].quote.est_time < 60 THEN 600
                            ELSE IF fn_result[1].quote.est_time < 300 THEN 300
                            ELSE 120
                 /\ fn_call.write = "err" => GET(store, key) = fn_call.entry
           /\ ~fetched
              => /\ fn_result[1].tag = "Err"
                 /\ fn_call.write = "none"
                 /\ GET(store, key) = fn_call.entry

\* C33 witness: a quote with est_time 299 was fetched from the provider
\* after a miss and is in the cache with 300 s to live.
C33_MediumBridgeCached ==
    /\ fn_pc = "done"
    /\ fn_call.probe = "miss"
    /\ fn_call.write = "ok"
    /\ fn_result = Some([tag |-> "Ok", quote |-> CachedQuote("quote", 299)])
    /\ store[AdapterCacheKey(ad_name)] = [val |-> CachedQuote("quote", 299), ttl |-> 300]

BothMissed == \A p \in Pair : pc[p] = "done" /\ reply[p].x_cache = "MISS"

\* The entry under key k holds the response sent to request p.
HoldsResponseOf(k, p) ==
    /\ HasKey(store, k)
    /\ store[k].val.routes = reply[p].body.routes
    /\ store[k].val.errors = reply[p].body.errors

\* C35 as stated (SpecConcurrent): when two concurrent requests for the
\* same key have both missed and written, the fresh key and the stale key
\* hold the same response.
C35_CopiesAgree ==
    BothMissed
    => LET key == generate_cache_key(BaseParams)
       IN  /\ HasKey(store, key)
           /\ HasKey(store, Append(key, "_stale"))
           /\ store[key].val = store[Append(key, "_stale")].val

\* C35 amended (SpecConcurrent): when two concurrent requests for the
\* same key have both missed and written, the fresh key holds the response
\* sent to one of them and the stale key holds the response sent to one of
\* them, with 15 s and 300 s to live.
C35_CopiesOfSomeRequest ==
    BothMissed
    => LET key == generate_cache_key(BaseParams)
       IN  /\ \E p \in Pair : HoldsResponseOf(key, p)
           /\ \E p \in Pair : HoldsResponseOf(Append(key, "_stale"), p)
           /\ store[key].ttl = 15
           /\ store[Append(key, "_stale")].ttl = 300

\* C35 witness: the writes of the two requests interleaved; the fresh key
\* holds the response to the second request and the stale key the
\* different response to the first.
C35_CopiesOfDifferentRequests ==
    LET key == generate_cache_key(BaseParams)
    IN  /\ BothMissed
        /\ reply[First].body.routes # reply[Second].body.routes
        /\ HoldsResponseOf(key, Second)
        /\ HoldsResponseOf(Append(key, "_stale"), First)

\* The fresh and the stale key of every request.
QuoteKeys ==
    UNION {{generate_cache_key(q.params), stale_cache_key(q.params)} : q \in Requests}

\* The step sets the entry under k, changes its value or lengthens its life.
Touched(k) ==
    /\ HasKey(store', k)
    /\ \/ ~HasKey(store, k)
       \/ store'[k].val # store[k].val
       \/ store'[k].ttl > store[k].ttl

\* C36 (SpecFrame): a step that sets, overwrites or lengthens the life of a
\* fresh or stale quote key is a cache write of a handler whose response
\* has at least one route and whose request ends in a MISS; the step that
\* answers 400, 429, 502, a HIT or a STALE touches neither key, and no
\* cache write of that request came before it.
C36_OnlyRoutesAreCached ==
    [][/\ \A k \in QuoteKeys :
            Touched(k)
            => \E p \in Handlers :
                  /\ pc[p] \in {"write_fresh", "write_stale"}
                  /\ pc'[p] \in {"write_stale", "done"}
                  /\ response[p].routes # << >>
                  /\ store'[k].val = response[p]
                  /\ pc'[p] = "done"
                     => reply'[p].status = 200 /\ reply'[p].x_cache = "MISS"
       /\ \A p \in Handlers :
            (/\ pc[p] # "done" /\ pc'[p] = "done"
             /\ \/ reply'[p].status \in {400, 429, 502}
                \/ reply'[p].x_cache \in {"HIT", "STALE"})
            => /\ \A k \in QuoteKeys : ~Touched(k)
               /\ hist'[p].cached = "none"
               /\ pc[p] \notin {"write_fresh", "write_stale"}]_vars

\* C36 witness: a request ended in a STALE response while the fresh key was
\* gone and the stale key had less than its 300 s left.
C36_StaleServedUntouched ==
    \E p \in Handlers :
        /\ pc[p] = "done" /\ reply[p].x_cache = "STALE"
        /\ ~HasKey(store, generate_cache_key(req[p][1].params))
        /\ HasKey(store, stale_cache_key(req[p][1].params))
        /\ store[stale_cache_key(req[p][1].params)].ttl < MAX_STALE_CACHE_AGE_SECONDS

\* The request passed the amount check and its amount was converted.
AmountPassed == fn_pc = "done" /\ fn_call.fn = "amount_to_smallest_unit"

\* C37 (SpecAmount): the smallest-unit string made for a request that
\* passed validation is a positive integer.
C37_PositiveAmountReachesAdapters ==
    AmountPassed
    => /\ fn_result[1].amount # << >>
       /\ \A i \in DOMAIN fn_result[1].amount :
            \E d \in DOMAIN DigitChars : fn_result[1].amount[i] = DigitChars[d]
       /\ \E i \in DOMAIN fn_result[1].amount : fn_result[1].amount[i] # "0"

\* Decimals of the shared table: 6 for USDC and USDT, 8 for WBTC, 18 for
\* every other token.
TableDecimals(token) ==
    IF to_uppercase(token) \in {to_uppercase(Usdc), Usdt} THEN 6
    ELSE IF to_uppercase(token) = Wbtc THEN 8
    ELSE 18

\* n times the number: long multiplication from the last digit back to
\* digit i.
RECURSIVE ProductFrom(_, _, _)
ProductFrom(ds, i, n) ==
    IF i > Len(ds) THEN [digits |-> << >>, carry |-> 0]
    ELSE LET rest == ProductFrom(ds, i + 1, n)
             v == n * ds[i] + rest.carry
         IN  [digits |-> << v % 10 >> \o rest.digits, carry |-> v \div 10]

Product(ds, n) ==
    LET r == ProductFrom(ds, 1, n)
    IN  Canonical(Digits(r.carry) \o r.digits)

\* C38 (SpecAmount): for a finite amount m / 2^k > 0 that passed
\* validation the smallest-unit string s is amount * 10^decimals with the
\* decimals of the shared table: s * 2^k = m * 10^decimals.
C38_AmountTimesTenToDecimals ==
    (AmountPassed /\ fn_call.amount.kind = "fin")
    => LET s == [i \in DOMAIN fn_result[1].amount |->
                    (CHOOSE d \in DOMAIN DigitChars :
                        DigitChars[d] = fn_result[1].amount[i]) - 1]
       IN  Product(s, 2 ^ fn_call.amount.k)
             = Canonical(Digits(fn_call.amount.m)
                         \o Zeros(TableDecimals(fn_call.token)))

\* get_batch_security_metadata has returned a list.
MetaListed ==
    /\ fn_pc = "done" /\ fn_call.fn = "get_batch_security_metadata"
    /\ fn_result[1].tag = "Ok"

\* C39 (SpecMeta): the list get_batch_security_metadata returns has one
\* entry per requested name, in the order of the input; the entry of a
\* bridge with no audit and no exploit rows has has_audit = false,
\* has_exploit = false and exploit_count = 0; an empty input gives an empty
\* list.
C39_OneEntryPerName ==
    MetaListed
    => LET names == fn_call.bridge_names
           list == fn_result[1].value
       IN  /\ Len(list) = Len(names)
           /\ \A k \in DOMAIN names :
                /\ list[k].bridge = names[k]
                /\ (/\ fn_call.tables[names[k]].audit_count = 0
                    /\ fn_call.tables[names[k]].exploit_count = 0)
                   => /\ ~list[k].has_audit
                      /\ ~list[k].has_exploit
                      /\ list[k].exploit_count = 0
           /\ names = << >> => list = << >>

\* C39 witness: two names were requested, the first without rows in either
\* table and the second with rows in both; the list has the default entry
\* first and the second bridge's counts after it.
C39_MissingBridgeFirst ==
    /\ MetaListed
    /\ Len(fn_call.bridge_names) = 2
    /\ fn_call.bridge_names[1] # fn_call.bridge_names[2]
    /\ fn_call.tables[fn_call.bridge_names[1]] = [audit_count |-> 0, exploit_count |-> 0]
    /\ fn_call.tables[fn_call.bridge_names[2]] = [audit_count |-> 1, exploit_count |-> 2]
    /\ fn_result[1].value[1].exploit_count = 0
    /\ fn_result[1].value[2].exploit_count = 2

\* Fees the fee of a call is compared with: those of SpecScore and a second
\* fee between 0 and the 0.01 threshold.
ComparedFees == Fees \cup {Fin(2)}

\* fee in (0, 0.01)
FeeUnclamped(fee) ==
    f64_lt(Fin(0), fee) /\ f64_lt(fee, DefaultScoringConfig.max_fee_threshold)

\* est_time in (0, 3600)
TimeUnclamped(est_time) ==
    est_time # U64(0) /\ ~u64_ge(est_time, DefaultScoringConfig.max_time_threshold)

\* C40 (SpecScore): with the default configuration and the other inputs
\* held fixed, a lower fee never gives a lower score, a shorter est_time
\* never gives a lower score, an audit never lowers the score and an
\* exploit never raises it; for a fee in (0, 0.01) and an est_time in
\* (0, 3600) the score is strictly higher for a lower fee in (0, 0.01), for
\* a shorter est_time in (0, 3600) and with an audit, and strictly lower
\* with an exploit.
C40_ScoreMonotone ==
    (/\ sc_pc = "done" /\ sc_call.fn = "calculate_score_with_config"
     /\ sc_call.config = DefaultScoringConfig)
    => LET fee == sc_call.fee
           est_time == sc_call.est_time
           has_audit == sc_call.has_audit
           has_exploit == sc_call.has_exploit
           score == sc_result[1].score
           inside == FeeUnclamped(fee) /\ TimeUnclamped(est_time)
       IN  /\ \A lower \in ComparedFees :
                f64_lt(lower, fee)
                => LET other == calculate_score(lower, est_time, has_audit, has_exploit)
                   IN  /\ ~f64_lt(other, score)
                       /\ (inside /\ FeeUnclamped(lower)) => f64_lt(score, other)
           /\ \A shorter \in Times :
                ~u64_ge(shorter, est_time)
                => LET other == calculate_score(fee, shorter, has_audit, has_exploit)
                   IN  /\ ~f64_lt(other, score)
                       /\ (inside /\ TimeUnclamped(shorter)) => f64_lt(score, other)
           /\ ~has_audit
              => LET other == calculate_score(fee, est_time, TRUE, has_exploit)
                 IN  /\ ~f64_lt(other, score)
                     /\ inside => f64_lt(score, other)
           /\ ~has_exploit
              => LET other == calculate_score(fee, est_time, has_audit, TRUE)
                 IN  /\ ~f64_lt(score, other)
                     /\ inside => f64_lt(other, score)

\* C40 witness: the default scorer was called with fee 0.005, est_time
\* 1800, no audit and no exploit, and returned 0.4 * 0.5 + 0.4 * 0.5 +
\* 0.2 * 0.5 = 0.5, between the scores of the cheaper and of the exploited
\* route.
C40_ScoredInsideRange ==
    /\ sc_pc = "done" /\ sc_call.fn = "calculate_score_with_config"
    /\ sc_call.config = DefaultScoringConfig
    /\ sc_call.fee = Fin(5) /\ sc_call.est_time = U64(1800)
    /\ ~sc_call.has_audit /\ ~sc_call.has_exploit
    /\ sc_result[1].score = Fin(500)
    /\ calculate_score(Fin(2), U64(1800), FALSE, FALSE) = Fin(620)
    /\ calculate_score(Fin(5), U64(1800), FALSE, TRUE) = Fin(400)

====
